---- MODULE Spec2Model ----
(***************************************************************************)
(* ucerts: the certificate manager daemon.                                 *)
(*                                                                         *)
(* Two goroutines share the filesystem: the periodic scan loop started by  *)
(* manager.Start and the fsnotify listener started by watcher.Start.  Both *)
(* call manager.HandleCertificateRequestFile, which loads a request,       *)
(* evaluates the certificate on disk and, when needed, regenerates key,    *)
(* certificate and CA copy through pki.go and fs.go.                       *)
(*                                                                         *)
(* Every system call of the handler that touches the shared filesystem is  *)
(* one step, so that the interleavings of the two goroutines are those of  *)
(* the program.                                                            *)
(*                                                                         *)
(* The agent is a separate process: its StoreCertificate writes the        *)
(* payloads of a Request through the content-aware WritePemToFile.         *)
(* LoadIssuer is also studied on its own, over every IssuerPath.           *)
(*                                                                         *)
(* Three more parts are studied on their own: GeneratePrivateKey and       *)
(* GenerateCertificate of pki.go over every algorithm and size, the        *)
(* extKeyUsages loop of LoadCertificateRequest over lists of names, and    *)
(* the stack of graceful stops of daemon.go.                               *)
(***************************************************************************)
EXTENDS Integers, Sequences, FiniteSets, TLC

\* ------------------------------------------------------------------------
\* Bounds
\* ------------------------------------------------------------------------

\* The clock runs from 0 to MaxTime (abstract time units).
MaxTime == 2

\* A request file names at most MaxExtKeyUsages extended key usages.
MaxExtKeyUsages == 2

\* main pushes at most MaxStops stop functions before it waits for a signal.
MaxStops == 3

\* ------------------------------------------------------------------------
\* Configuration and the watched directories
\* ------------------------------------------------------------------------

\* The entries os.ReadDir returns for a directory, sorted by filename.
DirEntries(d) ==
    CASE d = "d1"  -> <<"a.yaml", "b.txt", "c.json">>
      [] d = "d2"  -> <<"Makefile", "e.yaml", "f.yml">>
      [] d = "d4"  -> <<"g.yaml">>
      [] d = "d5"  -> <<"h.yaml">>
      [] OTHER     -> <<"e.yaml">>

\* viper.SupportedExts
SupportedExts ==
    {"json", "toml", "yaml", "yml", "properties", "props", "prop",
     "hcl", "tfvars", "dotenv", "env", "ini"}

\* filepath.Ext without the leading dot ("" when the name has no dot)
Ext(file) ==
    CASE file = "a.yaml" -> "yaml"
      [] file = "e.yaml" -> "yaml"
      [] file = "g.yaml" -> "yaml"
      [] file = "h.yaml" -> "yaml"
      [] file = "f.yml"  -> "yml"
      [] file = "c.json" -> "json"
      [] file = "b.txt"  -> "txt"
      [] OTHER           -> ""

\* An extension check that accepts every name that has an extension
GetExtensionOK_anyExtension(file) == Ext(file) # ""

\* config.GetExtension: TRUE when it returns no error
GetExtensionOK(file) ==
    IF Ext(file) = "" THEN FALSE ELSE Ext(file) \in SupportedExts

\* ------------------------------------------------------------------------
\* Request descriptors
\* ------------------------------------------------------------------------

\* The content of the request files, as the keys viper reads from them.
RequestFile(file) ==
    CASE file = "a.yaml" ->
            [outDir |-> "outA", issuerDir |-> "ca", duration |-> 3,
             renewBefore |-> 1, algorithm |-> "ECDSA", size |-> 384,
             isCA |-> FALSE, keyUsages |-> <<"Digital Signature">>,
             extKeyUsages |-> <<"server auth">>,
             ipAddresses |-> <<"127.0.0.1">>]
      [] file = "e.yaml" ->
            [outDir |-> "outE", issuerDir |-> "", duration |-> 2,
             renewBefore |-> 1, algorithm |-> "", size |-> 0, isCA |-> TRUE,
             keyUsages |-> <<>>, extKeyUsages |-> <<>>, ipAddresses |-> <<>>]
      [] file = "f.yml" ->
            [outDir |-> "outE", issuerDir |-> "", duration |-> 2,
             renewBefore |-> 1, algorithm |-> "", size |-> 0, isCA |-> FALSE,
             keyUsages |-> <<>>, extKeyUsages |-> <<"bogus">>,
             ipAddresses |-> <<>>]
      [] file = "g.yaml" ->
            [outDir |-> "outE", issuerDir |-> "", duration |-> 0,
             renewBefore |-> 0, algorithm |-> "ed25519", size |-> 0,
             isCA |-> FALSE, keyUsages |-> <<>>, extKeyUsages |-> <<>>,
             ipAddresses |-> <<>>]
      [] file = "h.yaml" ->
            [outDir |-> "outE", issuerDir |-> "", duration |-> 1,
             renewBefore |-> 2, algorithm |-> "rsa", size |-> 2048,
             isCA |-> FALSE, keyUsages |-> <<>>, extKeyUsages |-> <<>>,
             ipAddresses |-> <<>>]
      [] OTHER ->
            [outDir |-> "", issuerDir |-> "", duration |-> 0,
             renewBefore |-> 0, algorithm |-> "", size |-> 0, isCA |-> FALSE,
             keyUsages |-> <<>>, extKeyUsages |-> <<>>, ipAddresses |-> <<>>]

\* The output directories the requests name
Outs == {"outA", "outE"}

\* strings.ToLower on the tokens that occur in the request files
ToLower(s) ==
    CASE s = "Digital Signature" -> "digital signature"
      [] s = "ECDSA"             -> "ecdsa"
      [] s = "RSA"               -> "rsa"
      [] s = "CodeSigning"       -> "codesigning"
      [] s = "Ed25519"           -> "ed25519"
      [] s = "Key Encipherment"  -> "key encipherment"
      [] s = "CRL Sign"          -> "crl sign"
      [] s = "ANY"               -> "any"
      [] s = "Server Auth"       -> "server auth"
      [] s = "Client Auth"       -> "client auth"
      [] s = "Code Signing"      -> "code signing"
      [] s = "CODESIGNING"       -> "codesigning"
      [] s = "Email Protection"  -> "email protection"
      [] s = "IPSEC End System"  -> "ipsec end system"
      [] s = "IPSec Tunnel"      -> "ipsec tunnel"
      [] s = "IPSEC USER"        -> "ipsec user"
      [] s = "Time Stamping"     -> "time stamping"
      [] s = "OCSP Signing"      -> "ocsp signing"
      [] s = "Microsoft Server Gated Crypto" ->
            "microsoft server gated crypto"
      [] s = "Netscape Server Gated Crypto" ->
            "netscape server gated crypto"
      [] s = "Microsoft Commercial Code Signing" ->
            "microsoft commercial code signing"
      [] s = "Microsoft Kernel Code Signing" ->
            "microsoft kernel code signing"
      [] s = "Bogus"             -> "bogus"
      [] OTHER                   -> s

\* findKeyUsage: TRUE when the token names a key usage
findKeyUsageOK(s) ==
    ToLower(s) \in {"digital signature", "content commitment",
                    "key encipherment", "data encipherment", "key agreement",
                    "cert sign", "crl sign", "encipher only", "decipher only"}

\* findExtKeyUsage: the x509 constant the token names, "" when the function
\* returns ErrInvalidExtKeyUsages.  The switch compares the lowered token
\* with the literal "CodeSigning".
findExtKeyUsage(s) ==
    LET l == ToLower(s) IN
    CASE l = "any"              -> "ExtKeyUsageAny"
      [] l = "server auth"      -> "ExtKeyUsageServerAuth"
      [] l = "client auth"      -> "ExtKeyUsageClientAuth"
      [] l = "CodeSigning"      -> "ExtKeyUsageCodeSigning"
      [] l = "email protection" -> "ExtKeyUsageEmailProtection"
      [] l = "ipsec end system" -> "ExtKeyUsageIPSECEndSystem"
      [] l = "ipsec tunnel"     -> "ExtKeyUsageIPSECTunnel"
      [] l = "ipsec user"       -> "ExtKeyUsageIPSECUser"
      [] l = "time stamping"    -> "ExtKeyUsageTimeStamping"
      [] l = "ocsp signing"     -> "ExtKeyUsageOCSPSigning"
      [] l = "microsoft server gated crypto" ->
            "ExtKeyUsageMicrosoftServerGatedCrypto"
      [] l = "netscape server gated crypto" ->
            "ExtKeyUsageNetscapeServerGatedCrypto"
      [] l = "microsoft commercial code signing" ->
            "ExtKeyUsageMicrosoftCommercialCodeSigning"
      [] l = "microsoft kernel code signing" ->
            "ExtKeyUsageMicrosoftKernelCodeSigning"
      [] OTHER -> ""

\* findExtKeyUsage: TRUE when the token names an extended key usage
findExtKeyUsageOK(s) == findExtKeyUsage(s) # ""

\* net.ParseIP on the literals that occur in the request files
ParseIPOK(s) == s \in {"127.0.0.1", "::1", "10.0.0.1"}

NoRequest ==
    [ok |-> FALSE, out |-> "", duration |-> 0, renewBefore |-> 0,
     algorithm |-> "", size |-> 0, isCA |-> FALSE,
     issuerPublicKey |-> "", issuerPrivateKey |-> ""]

\* LoadCertificateRequest, after the file has been opened and read
LoadCertificateRequest(file) ==
    LET conf == RequestFile(file) IN
    IF conf.outDir = "" THEN NoRequest
    ELSE IF \E i \in 1..Len(conf.keyUsages) : ~findKeyUsageOK(conf.keyUsages[i])
    THEN NoRequest
    ELSE IF \E i \in 1..Len(conf.extKeyUsages) :
                ~findExtKeyUsageOK(conf.extKeyUsages[i])
    THEN NoRequest
    ELSE IF \E i \in 1..Len(conf.ipAddresses) : ~ParseIPOK(conf.ipAddresses[i])
    THEN NoRequest
    ELSE [ok |-> TRUE, out |-> conf.outDir, duration |-> conf.duration,
          renewBefore |-> conf.renewBefore, algorithm |-> conf.algorithm,
          size |-> conf.size, isCA |-> conf.isCA,
          issuerPublicKey |->
              IF conf.issuerDir # "" THEN "ca.crt" ELSE "",
          issuerPrivateKey |->
              IF conf.issuerDir # "" THEN "ca.key" ELSE ""]

\* LoadIssuer returns (nil, nil) without touching the disk for these paths
LoadIssuerSkips(r) == r.issuerPublicKey = "" \/ r.issuerPrivateKey = ""

\* What the file of an issuer's certificate may hold: nothing, no PEM block,
\* a certificate that does not parse, a certificate
IssuerCertKinds == {"absent", "nopem", "badder", "pem"}

\* What the file of an issuer's key may hold: nothing, no PEM block, the key
\* of another certificate, the key of the certificate
IssuerKeyKinds == {"absent", "nopem", "mismatch", "pem"}

\* tls.LoadX509KeyPair: TRUE when it returns no error.  It reads both files,
\* parses the leaf certificate and matches the key with it.
LoadX509KeyPairOK(r, pair) ==
    /\ r.issuerPublicKey # "" /\ pair.cert = "pem"
    /\ r.issuerPrivateKey # "" /\ pair.key = "pem"

\* LoadIssuer: "nil" for (nil, nil), "issuer" for an issuer, else the error
LoadIssuer(r, pair) ==
    IF LoadIssuerSkips(r) THEN "nil"
    ELSE IF ~LoadX509KeyPairOK(r, pair) THEN "ErrLoadIssuerKeyPair"
    ELSE IF pair.cert = "badder" THEN "ErrParseIssuerCertificate"
    ELSE "issuer"

\* ------------------------------------------------------------------------
\* Files on disk
\* ------------------------------------------------------------------------

\* kind: "absent"; "empty" (created or truncated, nothing encoded yet);
\* "unreadable", "nopem", "wrongtype", "badder" (certificate files that
\* os.ReadFile, pem.Decode or x509.ParseCertificate reject); "pem" (a PEM
\* block of the given type).  id names the private key the block holds or
\* certifies; notAfter is the certificate's NotAfter.
File(kind, type, id, notAfter) ==
    [kind |-> kind, type |-> type, id |-> id, notAfter |-> notAfter]

Absent == File("absent", "", 0, 0)
Empty == File("empty", "", 0, 0)
CAFile == File("pem", "CERTIFICATE", 0, 0)

\* LoadCertFromFile without the test of the PEM block type
LoadCertFromFile_anyBlockType(f) ==
    IF f.kind \in {"absent", "unreadable"} THEN "ErrReadFile"
    ELSE IF f.kind \in {"empty", "nopem"} THEN "ErrInvalidPEMBlock"
    ELSE IF f.kind = "badder" THEN "ErrParseCertificate"
    ELSE ""

\* LoadCertFromFile: "" when the certificate loads, the error otherwise
LoadCertFromFile(f) ==
    IF f.kind \in {"absent", "unreadable"} THEN "ErrReadFile"
    ELSE IF f.kind \in {"empty", "nopem"} THEN "ErrInvalidPEMBlock"
    ELSE IF f.kind = "wrongtype" THEN "ErrInvalidPEMBlock"
    ELSE IF f.kind = "pem" /\ f.type # "CERTIFICATE" THEN "ErrInvalidPEMBlock"
    ELSE IF f.kind = "badder" THEN "ErrParseCertificate"
    ELSE ""

\* FileDoesNotExists
FileDoesNotExists(f) == f.kind = "absent"

\* The renewal test without the renewal window
Expired_ignoresRenewBefore(notAfter, t, renewBefore) == notAfter < t

\* The renewal test with !After in place of Before
Expired_inclusive(notAfter, t, renewBefore) == notAfter <= t + renewBefore

\* cert.NotAfter.Before(time.Now().Add(req.RenewBefore))
Expired(notAfter, t, renewBefore) == notAfter < t + renewBefore

\* ------------------------------------------------------------------------
\* Key generation parameters (pki.go)
\* ------------------------------------------------------------------------

MinRSAKeySize == 2048
MaxRSAKeySize == 8192

\* generateRSAPrivateKey / generateECPrivateKey / generateEd25519PrivateKey:
\* the PEM type of the key, or "" when the parameters are rejected
KeyPEMType(algorithm, size) ==
    LET alg == ToLower(IF algorithm = "" THEN "rsa" ELSE algorithm) IN
    CASE alg = "rsa" ->
            LET keySize == IF size = 0 THEN MinRSAKeySize ELSE size IN
            IF keySize < MinRSAKeySize \/ keySize > MaxRSAKeySize
            THEN "" ELSE "RSA PRIVATE KEY"
      [] alg = "ecdsa" ->
            LET keySize == IF size = 0 THEN 256 ELSE size IN
            IF keySize \in {256, 384, 521} THEN "EC PRIVATE KEY" ELSE ""
      [] alg = "ed25519" -> "PRIVATE KEY"
      [] OTHER -> ""

\* An error is the sequence of the parts of its message, outermost first: the
\* sentinel errors and the values that fmt.Errorf joins.  nil is <<>>.
Nil == <<>>

\* fmt.Errorf(format.WrapErrors, outer, inner)
WrapErrors(outer, inner) == <<outer>> \o inner

\* The result of a key generator: the dynamic type of the key ("" for nil),
\* the Type of the PEM block, the error
KeyResult(key, type, err) == [key |-> key, type |-> type, err |-> err]

\* A generator of RSA keys that puts no upper limit on the size
generateRSAPrivateKey_noUpperLimit(size, randOK) ==
    LET keySize == IF size = 0 THEN MinRSAKeySize ELSE size IN
    IF keySize < MinRSAKeySize
    THEN KeyResult("", "", <<"ErrRSAKeySizeTooWeak">>)
    ELSE IF ~randOK THEN KeyResult("", "", <<"rand">>)
    ELSE KeyResult("rsa", "RSA PRIVATE KEY", Nil)

\* pki.go:80-96; randOK tells whether rsa.GenerateKey could read rand.Reader
generateRSAPrivateKey(size, randOK) ==
    LET keySize == IF size = 0 THEN MinRSAKeySize ELSE size IN
    IF keySize < MinRSAKeySize
    THEN KeyResult("", "", <<"ErrRSAKeySizeTooWeak">>)
    ELSE IF keySize > MaxRSAKeySize
    THEN KeyResult("", "", <<"ErrRSAKeySizeTooBig">>)
    ELSE IF ~randOK THEN KeyResult("", "", <<"rand">>)
    ELSE KeyResult("rsa", "RSA PRIVATE KEY", Nil)

\* pki.go:98-127; the error of an unsupported size carries the size
generateECPrivateKey(size, randOK) ==
    LET keySize == IF size = 0 THEN 256 ELSE size IN
    IF keySize \notin {256, 384, 521}
    THEN KeyResult("", "", <<"ErrUnsupportedECDSAKeySize", ToString(keySize)>>)
    ELSE IF ~randOK THEN KeyResult("", "", <<"rand">>)
    ELSE KeyResult("ecdsa", "EC PRIVATE KEY", Nil)

\* pki.go:129-141: the size is not read
generateEd25519PrivateKey(size, randOK) ==
    IF ~randOK THEN KeyResult("", "", <<"rand">>)
    ELSE KeyResult("ed25519", "PRIVATE KEY", Nil)

\* pki.go:48-70: GeneratePrivateKey up to the call of WritePemToFile.  The
\* default case of the switch returns at once; the errors of the generators
\* are wrapped into ErrGenerateKey.
generatePrivateKey(algorithm, size, randOK) ==
    LET alg == ToLower(IF algorithm = "" THEN "rsa" ELSE algorithm) IN
    IF alg \notin {"rsa", "ecdsa", "ed25519"}
    THEN KeyResult("", "", <<"ErrUnsupportedPrivateKeyAlgorithm", algorithm>>)
    ELSE LET res == CASE alg = "rsa"     -> generateRSAPrivateKey(size, randOK)
                      [] alg = "ecdsa"   -> generateECPrivateKey(size, randOK)
                      [] alg = "ed25519" -> generateEd25519PrivateKey(size, randOK)
         IN  IF res.err # Nil
             THEN KeyResult("", "", WrapErrors("ErrGenerateKey", res.err))
             ELSE res

\* The fields of a CertificateRequest that pki.go reads, at their zero values
NoPkiRequest ==
    [Algorithm |-> "", Size |-> 0, IsCA |-> FALSE, KeyUsage |-> {}]

\* The loop over extKeyUsages has not run.
NoEkuResult == [ExtKeyUsage |-> <<>>, err |-> Nil]

\* findKeyUsage: the bit the token names, "" when it names none
findKeyUsage(s) ==
    LET l == ToLower(s) IN
    CASE l = "digital signature"  -> "DigitalSignature"
      [] l = "content commitment" -> "ContentCommitment"
      [] l = "key encipherment"   -> "KeyEncipherment"
      [] l = "data encipherment"  -> "DataEncipherment"
      [] l = "key agreement"      -> "KeyAgreement"
      [] l = "cert sign"          -> "CertSign"
      [] l = "crl sign"           -> "CRLSign"
      [] l = "encipher only"      -> "EncipherOnly"
      [] l = "decipher only"      -> "DecipherOnly"
      [] OTHER                    -> ""

\* part_001:148-154: req.KeyUsage, the bits that the keyUsages of the request
\* file name (every token of the list is a key usage)
RequestKeyUsage(keyUsages) ==
    {findKeyUsage(keyUsages[i]) : i \in 1..Len(keyUsages)}

\* A template that also takes the bits the request asks for
TemplateKeyUsage_withRequested(r, k) ==
    {"DigitalSignature"} \cup r.KeyUsage
    \cup (IF k = "rsa" THEN {"KeyEncipherment"} ELSE {})
    \cup (IF r.IsCA THEN {"CertSign"} ELSE {})

\* pki.go:150-161, 179: the KeyUsage of the template, for a key of dynamic
\* type k.  req.KeyUsage is not read.
TemplateKeyUsage(r, k) ==
    {"DigitalSignature"}
    \cup (IF k = "rsa" THEN {"KeyEncipherment"} ELSE {})
    \cup (IF r.IsCA THEN {"CertSign"} ELSE {})

\* ------------------------------------------------------------------------
\* Filesystem events (fsnotify.Event)
\* ------------------------------------------------------------------------

EventOps == {"WRITE", "CHMOD"}

\* The value of event before the first receive and between two iterations
NoEvent == [Name |-> "", Op |-> ""]

\* ------------------------------------------------------------------------
\* The agent's files and requests (agent.go, agent fs.go)
\* ------------------------------------------------------------------------

\* The destination paths on the agent's host
AgentPaths == {"tls.crt", "tls.key", "ca.crt"}

\* Bytes: kind "empty" (no byte), "text" (bytes without a PEM block) or
\* "pem" (bytes whose first PEM block is block); extra tells that the bytes
\* are more than the encoding pem.Encode gives that block: text before it,
\* further blocks after it (a certificate chain), other line breaks.
Bytes(kind, block, extra) == [kind |-> kind, block |-> block, extra |-> extra]

NoBytes == Bytes("empty", "", FALSE)

\* A path that names no file
NoFile == Bytes("absent", "", FALSE)

\* A Request with every field at its zero value
NoStoreRequest ==
    [PublicKeyPath |-> "", PublicKeyData |-> NoBytes,
     PrivateKeyPath |-> "", PrivateKeyData |-> NoBytes,
     CaPath |-> "", CaData |-> NoBytes]

\* pem.Decode: the first PEM block of the bytes, "" when there is none
pemDecode(b) == IF b.kind = "pem" THEN b.block ELSE ""

\* pem.Encode: the encoding of one block, and nothing else
pemEncode(block) == Bytes("pem", block, FALSE)

\* sha1sum: the digest of the bytes, taken to be free of collisions
sha1sum(b) == <<"sha1", b.kind, b.block, b.extra>>

\* contentsAreEquals: a file that cannot be read equals nothing
contentsAreEquals(data, f) ==
    IF f.kind = "absent" THEN FALSE ELSE sha1sum(data) = sha1sum(f)

\* The payloads of a Request, in the order StoreCertificate writes them
Payloads == <<"public_key", "private_key", "ca">>

PathOf(r, k) ==
    CASE k = "public_key"  -> r.PublicKeyPath
      [] k = "private_key" -> r.PrivateKeyPath
      [] k = "ca"          -> r.CaPath

DataOf(r, k) ==
    CASE k = "public_key"  -> r.PublicKeyData
      [] k = "private_key" -> r.PrivateKeyData
      [] k = "ca"          -> r.CaData

\* len(data) == 0
IsEmpty(b) == b.kind = "empty"

\* A validation that looks at the data of a payload before its path
validate_dataBeforePath(r) ==
    IF IsEmpty(r.PublicKeyData) THEN "Missing public_key_data"
    ELSE IF r.PublicKeyPath = "" THEN "Missing public_key_path"
    ELSE IF IsEmpty(r.PrivateKeyData) THEN "Missing private_key_data"
    ELSE IF r.PrivateKeyPath = "" THEN "Missing private_key_path"
    ELSE IF r.CaPath # "" /\ IsEmpty(r.CaData) THEN "Missing ca_data"
    ELSE ""

\* validate: the message of the InvalidArgument error, "" when it returns nil
validate(r) ==
    IF r.PublicKeyPath = "" THEN "Missing public_key_path"
    ELSE IF IsEmpty(r.PublicKeyData) THEN "Missing public_key_data"
    ELSE IF r.PrivateKeyPath = "" THEN "Missing private_key_path"
    ELSE IF IsEmpty(r.PrivateKeyData) THEN "Missing private_key_data"
    ELSE IF r.CaPath # "" /\ IsEmpty(r.CaData) THEN "Missing ca_data"
    ELSE ""

\* The message of ErrInternal
ErrInternal == "Internal server error"

\* ------------------------------------------------------------------------
\* State
\* ------------------------------------------------------------------------

\* The goroutine of manager.Start and the goroutine of watcher.Start
Procs == {"tick", "watch"}

VARIABLES
    CertificateRequestsPaths,  \* config.CertificateRequestsPaths
    now,          \* time.Now()
    dirExists,    \* dirExists[o]: the output directory o exists
    key,          \* key[o]: the file at OutKeyPath
    cert,         \* cert[o]: the file at OutCertPath
    ca,           \* ca[o]: the file at OutCAPath
    tickerC,      \* number of ticks waiting in ticker.C (capacity 1)
    tickerOn,     \* the ticker has not been stopped
    stopC,        \* number of values waiting in the stop channel (capacity 1)
    stopPc,       \* position of the shutdown sequence
    tpc,          \* position of the scan goroutine
    dirIdx,       \* index of the directory LoadCertificateRequests is at
    files,        \* the listing of that directory
    fileIdx,      \* index of the file the scan is at
    listedOK,     \* directories listed successfully in the current pass
    listedErr,    \* directories whose listing failed in the current pass
    handled,      \* files handed to the handler in the current pass
    wpc,          \* position of the listener goroutine
    event,        \* the event listenEvents received last
    closed,       \* watcher.Close has closed both channels
    hpc,          \* hpc[p]: position of p inside HandleCertificateRequestFile
    cur,          \* cur[p]: the file p handles
    req,          \* req[p]: the loaded request
    issuer,       \* issuer[p]: the loaded issuer is not nil
    newKey,       \* newKey[p]: the key generated by GeneratePrivateKey
    notAfter,     \* notAfter[p]: NotAfter of the certificate template
    log,          \* log[p]: lines logged by the current invocation
    issuerPath,   \* the IssuerPath a call of LoadIssuer is given
    issuerPair,   \* what the two files of that IssuerPath hold
    issuerRet,    \* what the call of LoadIssuer returned
    agentFile,    \* agentFile[f]: the file at path f on the agent's host
    request,      \* the Request StoreCertificate is handling
    spc,          \* position of StoreCertificate
    status,       \* the status StoreCertificate returned
    trace,        \* the calls and writes of the current StoreCertificate
    resent,       \* the Request is the one of the call before
    genReq,       \* the CertificateRequest a call of pki.go is given
    gpc,          \* position of that call
    genRet,       \* what GeneratePrivateKey returned
    outKey,       \* the file at genReq's OutKeyPath
    keyUsage,     \* KeyUsage of the certificate GenerateCertificate signed
    extKeyUsages, \* the extKeyUsages of a request file being loaded
    ekuRet,       \* what the loop over them left: req.ExtKeyUsage, the error
    gracefulStops, \* daemon.gracefulStops
    pushed,       \* the functions given to PushGracefulStop, in order
    stopCalls,    \* the functions callGracefulStops has called, in order
    dpc           \* position of the main goroutine around Shutdown

fsVars == <<dirExists, key, cert, ca>>
envVars == <<CertificateRequestsPaths, now, tickerC, tickerOn, stopC, stopPc>>
scanVars == <<tpc, dirIdx, files, fileIdx, listedOK, listedErr, handled>>
watchVars == <<wpc, event, closed>>
handlerVars == <<hpc, cur, req, issuer, newKey, notAfter, log>>
issuerVars == <<issuerPath, issuerPair, issuerRet>>
agentVars == <<agentFile, request, spc, status, trace, resent>>
pkiVars == <<genReq, gpc, genRet, outKey, keyUsage>>
ekuVars == <<extKeyUsages, ekuRet>>
stopVars == <<gracefulStops, pushed, stopCalls, dpc>>
otherVars == <<issuerVars, agentVars, pkiVars, ekuVars, stopVars>>
vars == <<fsVars, envVars, scanVars, watchVars, handlerVars, otherVars>>

\* ------------------------------------------------------------------------
\* Initial states: the daemon has just started both goroutines
\* ------------------------------------------------------------------------

\* The output directory of the request in a file ("" when it has none)
OutOf(file) == RequestFile(file).outDir

\* The output directories that the requests of the watched directories name
ActiveOuts(paths) ==
    UNION {{OutOf(DirEntries(paths[i])[j]) : j \in 1..Len(DirEntries(paths[i]))} :
              i \in 1..Len(paths)} \ {""}

\* What an output directory may hold when the daemon starts: nothing, a key
\* and certificate written by an earlier run, or a certificate file that
\* something else has damaged.
InitOutStates(o) ==
    LET keyType == KeyPEMType(IF o = "outA" THEN "ecdsa" ELSE "",
                              IF o = "outA" THEN 384 ELSE 0)
        caFile == IF o = "outA" THEN CAFile ELSE Absent
        good(n) == [dir |-> TRUE, key |-> File("pem", keyType, 0, 0),
                    cert |-> File("pem", "CERTIFICATE", 0, n), ca |-> caFile]
        bad(k) == [dir |-> TRUE, key |-> File("pem", keyType, 0, 0),
                   cert |-> File(k, "", 0, 0), ca |-> caFile]
    IN  {[dir |-> FALSE, key |-> Absent, cert |-> Absent, ca |-> Absent],
         [dir |-> TRUE, key |-> Absent, cert |-> Absent, ca |-> Absent]}
        \cup {good(n) : n \in IF o = "outA" THEN {1, 3} ELSE {2}}
        \cup {bad(k) : k \in IF o = "outA"
                             THEN {"unreadable", "nopem", "wrongtype", "badder"}
                             ELSE {}}

\* The daemon has just started its goroutines on the watch directories paths.
InitDaemon(paths) ==
    /\ CertificateRequestsPaths = paths
    /\ now = 0
    /\ \E st \in [Outs -> UNION {InitOutStates(o) : o \in Outs}] :
          /\ \A o \in Outs :
                IF o \in ActiveOuts(paths)
                THEN st[o] \in InitOutStates(o)
                ELSE st[o] = [dir |-> FALSE, key |-> Absent, cert |-> Absent,
                              ca |-> Absent]
          /\ dirExists = [o \in Outs |-> st[o].dir]
          /\ key = [o \in Outs |-> st[o].key]
          /\ cert = [o \in Outs |-> st[o].cert]
          /\ ca = [o \in Outs |-> st[o].ca]
    /\ tickerC = 0
    /\ tickerOn = TRUE
    /\ stopC = 0
    /\ stopPc = "running"
    /\ tpc = "readdir"
    /\ dirIdx = 1
    /\ files = <<>>
    /\ fileIdx = 1
    /\ listedOK = {}
    /\ listedErr = {}
    /\ handled = {}
    /\ wpc = "listen"
    /\ event = NoEvent
    /\ closed = FALSE
    /\ hpc = [p \in Procs |-> "idle"]
    /\ cur = [p \in Procs |-> ""]
    /\ req = [p \in Procs |-> NoRequest]
    /\ issuer = [p \in Procs |-> FALSE]
    /\ newKey = [p \in Procs |-> 0]
    /\ notAfter = [p \in Procs |-> 0]
    /\ log = [p \in Procs |-> <<>>]

\* No call of LoadIssuer is under study.
InitNoIssuerCall ==
    /\ issuerPath = [issuerPublicKey |-> "", issuerPrivateKey |-> ""]
    /\ issuerPair = [cert |-> "absent", key |-> "absent"]
    /\ issuerRet = ""

\* The agent is another process on another host; it is not under study.
InitNoAgent ==
    /\ agentFile = [f \in AgentPaths |-> NoFile]
    /\ request = NoStoreRequest
    /\ spc = "idle"
    /\ status = ""
    /\ trace = <<>>
    /\ resent = FALSE

\* No call of pki.go is under study.
InitNoPki ==
    /\ genReq = NoPkiRequest
    /\ gpc = "idle"
    /\ genRet = KeyResult("", "", Nil)
    /\ outKey = Absent
    /\ keyUsage = {}

\* No list of extended key usages is under study.
InitNoEku ==
    /\ extKeyUsages = <<>>
    /\ ekuRet = NoEkuResult

\* The stack of stop functions is not under study.
InitNoStops ==
    /\ gracefulStops = <<>>
    /\ pushed = <<>>
    /\ stopCalls = <<>>
    /\ dpc = "idle"

\* None of the functions that are studied on their own is.
InitNoCalls == InitNoPki /\ InitNoEku /\ InitNoStops

\* The manager daemon has just started.
InitConfig(paths) ==
    InitDaemon(paths) /\ InitNoIssuerCall /\ InitNoAgent /\ InitNoCalls

\* One watch directory, both goroutines
Init == InitConfig(<<"d1">>)

\* Two watch directories
InitScan == InitConfig(<<"d1", "d2">>)

\* One watch directory that holds one request, which names no issuer
InitLive == InitConfig(<<"d3">>)

\* One watch directory that holds one request whose Duration does not exceed
\* its RenewBefore: g.yaml gives neither of them, h.yaml gives 1 and 2
InitEager == InitConfig(<<"d4">>) \/ InitConfig(<<"d5">>)

\* ------------------------------------------------------------------------
\* Fresh keys
\* ------------------------------------------------------------------------

\* A generated key differs from every key that any file or goroutine still
\* holds; identifiers that nothing holds any more are used again.
UsedIds ==
    {key[o].id : o \in Outs} \cup {cert[o].id : o \in Outs}
    \cup {newKey[p] : p \in Procs}

NumIds == 2 * Cardinality(Outs) + Cardinality(Procs) + 1

FreshKey == CHOOSE i \in 1..NumIds : i \notin UsedIds

\* ------------------------------------------------------------------------
\* HandleCertificateRequestFile (manager.go:56-95), one step per call
\* ------------------------------------------------------------------------

Out(p) == req[p].out

Logged(p, line) == log' = [log EXCEPT ![p] = Append(@, line)]

\* logError, followed by the return of GenerateOutFilesFromRequest
Failure(p) ==
    /\ log' = [log EXCEPT ![p] = Append(@, "Failure")]
    /\ hpc' = [hpc EXCEPT ![p] = "ret"]

\* manager.go:57-67: the extension check and LoadCertificateRequest
HandleBegin(p) ==
    /\ hpc[p] = "begin"
    /\ IF ~GetExtensionOK(cur[p])
       THEN /\ hpc' = [hpc EXCEPT ![p] = "ret"]
            /\ UNCHANGED <<req, log>>
       ELSE \E opened \in BOOLEAN :
              LET r == IF opened THEN LoadCertificateRequest(cur[p])
                       ELSE NoRequest
              IN  IF r.ok
                  THEN /\ req' = [req EXCEPT ![p] = r]
                       /\ log' = [log EXCEPT ![p] = <<"Handle">>]
                       /\ hpc' = [hpc EXCEPT ![p] = "issuer"]
                  ELSE /\ log' = [log EXCEPT ![p] =
                                      <<"Handle", "ErrLoadRequest">>]
                       /\ hpc' = [hpc EXCEPT ![p] = "ret"]
                       /\ UNCHANGED req
    /\ UNCHANGED <<otherVars, fsVars, envVars, scanVars, watchVars,
                   cur, issuer, newKey, notAfter>>

\* The handler that goes on without an issuer when LoadIssuer fails
HandleLoadIssuer_ignoresError(p) ==
    /\ hpc[p] = "issuer"
    /\ IF LoadIssuerSkips(req[p])
       THEN /\ issuer' = [issuer EXCEPT ![p] = FALSE]
            /\ hpc' = [hpc EXCEPT ![p] = "stat"]
            /\ UNCHANGED log
       ELSE \E res \in {"", "ErrLoadIssuerKeyPair", "ErrParseIssuerCertificate"} :
              IF res = ""
              THEN /\ issuer' = [issuer EXCEPT ![p] = TRUE]
                   /\ hpc' = [hpc EXCEPT ![p] = "stat"]
                   /\ UNCHANGED log
              ELSE /\ Logged(p, "ErrIssuer")
                   /\ hpc' = [hpc EXCEPT ![p] = "stat"]
                   /\ issuer' = [issuer EXCEPT ![p] = FALSE]
    /\ UNCHANGED <<otherVars, fsVars, envVars, scanVars, watchVars,
                   cur, req, newKey, notAfter>>

\* manager.go:69-73 and LoadIssuer
HandleLoadIssuer(p) ==
    /\ hpc[p] = "issuer"
    /\ IF LoadIssuerSkips(req[p])
       THEN /\ issuer' = [issuer EXCEPT ![p] = FALSE]
            /\ hpc' = [hpc EXCEPT ![p] = "stat"]
            /\ UNCHANGED log
       ELSE \E res \in {"", "ErrLoadIssuerKeyPair", "ErrParseIssuerCertificate"} :
              IF res = ""
              THEN /\ issuer' = [issuer EXCEPT ![p] = TRUE]
                   /\ hpc' = [hpc EXCEPT ![p] = "stat"]
                   /\ UNCHANGED log
              ELSE /\ Logged(p, "ErrIssuer")
                   /\ hpc' = [hpc EXCEPT ![p] = "ret"]
                   /\ UNCHANGED issuer
    /\ UNCHANGED <<otherVars, fsVars, envVars, scanVars, watchVars,
                   cur, req, newKey, notAfter>>

\* manager.go:75: FileDoesNotExists(req.OutCertPath)
HandleStat(p) ==
    /\ hpc[p] = "stat"
    /\ hpc' = [hpc EXCEPT ![p] =
                  IF FileDoesNotExists(cert[Out(p)]) THEN "mkdir" ELSE "loadcert"]
    /\ UNCHANGED <<otherVars, fsVars, envVars, scanVars, watchVars,
                   cur, req, issuer, newKey, notAfter, log>>

\* The handler without the test of MakeParentsDirectories' result
MakeParentsDirectories_ignoresFailure(p) ==
    /\ hpc[p] = "mkdir"
    /\ hpc' = [hpc EXCEPT ![p] = "genkey"]
    /\ IF FileDoesNotExists(cert[Out(p)]) /\ ~dirExists[Out(p)]
       THEN \E made \in BOOLEAN :
              dirExists' = [dirExists EXCEPT ![Out(p)] = made]
       ELSE UNCHANGED dirExists
    /\ UNCHANGED <<otherVars, key, cert, ca, envVars, scanVars, watchVars,
                   cur, req, issuer, newKey, notAfter, log>>

\* manager.go:76-78 and MakeParentsDirectories: os.MkdirAll runs only when
\* the certificate is still absent, and succeeds on an existing directory.
MakeParentsDirectories(p) ==
    /\ hpc[p] = "mkdir"
    /\ IF FileDoesNotExists(cert[Out(p)]) /\ ~dirExists[Out(p)]
       THEN \E made \in BOOLEAN :
              IF made
              THEN /\ dirExists' = [dirExists EXCEPT ![Out(p)] = TRUE]
                   /\ hpc' = [hpc EXCEPT ![p] = "genkey"]
              ELSE /\ hpc' = [hpc EXCEPT ![p] = "ret"]
                   /\ UNCHANGED dirExists
       ELSE /\ hpc' = [hpc EXCEPT ![p] = "genkey"]
            /\ UNCHANGED dirExists
    /\ UNCHANGED <<otherVars, key, cert, ca, envVars, scanVars, watchVars,
                   cur, req, issuer, newKey, notAfter, log>>

\* A handler that renews every certificate that loads
HandleLoadCert_alwaysRenews(p) ==
    /\ hpc[p] = "loadcert"
    /\ IF LoadCertFromFile(cert[Out(p)]) # ""
       THEN Logged(p, "ErrInvalidCert")
       ELSE Logged(p, "Expired")
    /\ hpc' = [hpc EXCEPT ![p] = "genkey"]
    /\ UNCHANGED <<otherVars, fsVars, envVars, scanVars, watchVars,
                   cur, req, issuer, newKey, notAfter>>

\* manager.go:83-95: LoadCertFromFile and the renewal test
HandleLoadCert(p) ==
    /\ hpc[p] = "loadcert"
    /\ IF LoadCertFromFile(cert[Out(p)]) # ""
       THEN /\ Logged(p, "ErrInvalidCert")
            /\ hpc' = [hpc EXCEPT ![p] = "genkey"]
       ELSE IF Expired(cert[Out(p)].notAfter, now, req[p].renewBefore)
       THEN /\ Logged(p, "Expired")
            /\ hpc' = [hpc EXCEPT ![p] = "genkey"]
       ELSE /\ hpc' = [hpc EXCEPT ![p] = "ret"]
            /\ UNCHANGED log
    /\ UNCHANGED <<otherVars, fsVars, envVars, scanVars, watchVars,
                   cur, req, issuer, newKey, notAfter>>

\* ------------------------------------------------------------------------
\* GenerateOutFilesFromRequest (manager.go:97-118) and pki.go
\* ------------------------------------------------------------------------

\* WritePemToFile, first half: os.Create truncates the file
CanCreate(p, created) == created /\ dirExists[Out(p)]

\* manager.go:98-103 and GeneratePrivateKey up to os.Create of the key file
GeneratePrivateKey(p) ==
    /\ hpc[p] = "genkey"
    /\ \E generated \in BOOLEAN, created \in BOOLEAN :
          IF /\ KeyPEMType(req[p].algorithm, req[p].size) # ""
             /\ generated
             /\ CanCreate(p, created)
          THEN /\ key' = [key EXCEPT ![Out(p)] = Empty]
               /\ newKey' = [newKey EXCEPT ![p] = FreshKey]
               /\ log' = [log EXCEPT ![p] = Append(@, "GenKey")]
               /\ hpc' = [hpc EXCEPT ![p] = "keyencode"]
          ELSE /\ log' = [log EXCEPT ![p] = Append(Append(@, "GenKey"), "Failure")]
               /\ hpc' = [hpc EXCEPT ![p] = "ret"]
               /\ UNCHANGED <<key, newKey>>
    /\ UNCHANGED <<otherVars, dirExists, cert, ca, envVars, scanVars, watchVars,
                   cur, req, issuer, notAfter>>

\* WritePemToFile of the key, second half: pem.Encode
WriteKey(p) ==
    /\ hpc[p] = "keyencode"
    /\ \E encoded \in BOOLEAN :
          IF encoded
          THEN /\ key' = [key EXCEPT ![Out(p)] =
                     File("pem", KeyPEMType(req[p].algorithm, req[p].size),
                          newKey[p], 0)]
               /\ hpc' = [hpc EXCEPT ![p] = "gencert"]
               /\ UNCHANGED log
          ELSE /\ Failure(p)
               /\ UNCHANGED key
    /\ UNCHANGED <<otherVars, dirExists, cert, ca, envVars, scanVars, watchVars,
                   cur, req, issuer, newKey, notAfter>>

\* manager.go:105-109 and GenerateCertificate up to os.Create of the
\* certificate file; NotAfter = time.Now() + req.Duration
GenerateCertificate(p) ==
    /\ hpc[p] = "gencert"
    /\ \E signed \in BOOLEAN, created \in BOOLEAN :
          IF signed /\ CanCreate(p, created)
          THEN /\ cert' = [cert EXCEPT ![Out(p)] = Empty]
               /\ notAfter' = [notAfter EXCEPT ![p] = now + req[p].duration]
               /\ log' = [log EXCEPT ![p] = Append(@, "GenCert")]
               /\ hpc' = [hpc EXCEPT ![p] = "certencode"]
          ELSE /\ log' = [log EXCEPT ![p] = Append(Append(@, "GenCert"), "Failure")]
               /\ hpc' = [hpc EXCEPT ![p] = "ret"]
               /\ UNCHANGED <<cert, notAfter>>
    /\ UNCHANGED <<otherVars, dirExists, key, ca, envVars, scanVars, watchVars,
                   cur, req, issuer, newKey>>

\* GenerateOutFilesFromRequest without the test issuer != nil
WriteCert_alwaysCopiesCA(p) ==
    /\ hpc[p] = "certencode"
    /\ \E encoded \in BOOLEAN :
          IF encoded
          THEN /\ cert' = [cert EXCEPT ![Out(p)] =
                     File("pem", "CERTIFICATE", newKey[p], notAfter[p])]
               /\ hpc' = [hpc EXCEPT ![p] = "copyca"]
               /\ UNCHANGED log
          ELSE /\ Failure(p)
               /\ UNCHANGED cert
    /\ UNCHANGED <<otherVars, dirExists, key, ca, envVars, scanVars, watchVars,
                   cur, req, issuer, newKey, notAfter>>

\* WritePemToFile of the certificate, second half, and manager.go:111
WriteCert(p) ==
    /\ hpc[p] = "certencode"
    /\ \E encoded \in BOOLEAN :
          IF encoded
          THEN /\ cert' = [cert EXCEPT ![Out(p)] =
                     File("pem", "CERTIFICATE", newKey[p], notAfter[p])]
               /\ hpc' = [hpc EXCEPT ![p] = IF issuer[p] THEN "copyca" ELSE "ret"]
               /\ UNCHANGED log
          ELSE /\ Failure(p)
               /\ UNCHANGED cert
    /\ UNCHANGED <<otherVars, dirExists, key, ca, envVars, scanVars, watchVars,
                   cur, req, issuer, newKey, notAfter>>

\* manager.go:112-116 and CopyCA up to os.Create of the CA file
CopyCA(p) ==
    /\ hpc[p] = "copyca"
    /\ \E created \in BOOLEAN :
          IF CanCreate(p, created)
          THEN /\ ca' = [ca EXCEPT ![Out(p)] = Empty]
               /\ log' = [log EXCEPT ![p] = Append(@, "CopyCA")]
               /\ hpc' = [hpc EXCEPT ![p] = "caencode"]
          ELSE /\ log' = [log EXCEPT ![p] = Append(Append(@, "CopyCA"), "Failure")]
               /\ hpc' = [hpc EXCEPT ![p] = "ret"]
               /\ UNCHANGED ca
    /\ UNCHANGED <<otherVars, dirExists, key, cert, envVars, scanVars, watchVars,
                   cur, req, issuer, newKey, notAfter>>

\* WritePemToFile of the CA copy, second half
WriteCA(p) ==
    /\ hpc[p] = "caencode"
    /\ \E encoded \in BOOLEAN :
          IF encoded
          THEN /\ ca' = [ca EXCEPT ![Out(p)] = CAFile]
               /\ hpc' = [hpc EXCEPT ![p] = "ret"]
               /\ UNCHANGED log
          ELSE /\ Failure(p)
               /\ UNCHANGED ca
    /\ UNCHANGED <<otherVars, dirExists, key, cert, envVars, scanVars, watchVars,
                   cur, req, issuer, newKey, notAfter>>

GenerateOutFilesFromRequest(p) ==
    \/ GeneratePrivateKey(p)
    \/ WriteKey(p)
    \/ GenerateCertificate(p)
    \/ WriteCert(p)
    \/ CopyCA(p)
    \/ WriteCA(p)

\* A handler whose failure ends the pass of the scan
HandleReturn_abortsScan(p) ==
    /\ hpc[p] = "ret"
    /\ hpc' = [hpc EXCEPT ![p] = "idle"]
    /\ cur' = [cur EXCEPT ![p] = ""]
    /\ req' = [req EXCEPT ![p] = NoRequest]
    /\ issuer' = [issuer EXCEPT ![p] = FALSE]
    /\ newKey' = [newKey EXCEPT ![p] = 0]
    /\ notAfter' = [notAfter EXCEPT ![p] = 0]
    /\ log' = [log EXCEPT ![p] = <<>>]
    /\ IF p = "tick"
       THEN /\ fileIdx' = fileIdx + 1
            /\ tpc' = IF \E i \in 1..Len(log[p]) :
                             log[p][i] \in {"Failure", "ErrLoadRequest", "ErrIssuer"}
                      THEN "select" ELSE tpc
            /\ UNCHANGED <<wpc, event>>
       ELSE /\ wpc' = "listen"
            /\ event' = NoEvent
            /\ UNCHANGED <<fileIdx, tpc>>
    /\ UNCHANGED <<otherVars, fsVars, envVars, dirIdx, files, listedOK, listedErr,
                   handled, closed>>

\* The handler returns to the loop that called it: the scan moves on to the
\* next file (manager.go:50-52), the listener to its select (watcher.go:42).
HandleReturn(p) ==
    /\ hpc[p] = "ret"
    /\ hpc' = [hpc EXCEPT ![p] = "idle"]
    /\ cur' = [cur EXCEPT ![p] = ""]
    /\ req' = [req EXCEPT ![p] = NoRequest]
    /\ issuer' = [issuer EXCEPT ![p] = FALSE]
    /\ newKey' = [newKey EXCEPT ![p] = 0]
    /\ notAfter' = [notAfter EXCEPT ![p] = 0]
    /\ log' = [log EXCEPT ![p] = <<>>]
    /\ IF p = "tick"
       THEN /\ fileIdx' = fileIdx + 1
            /\ UNCHANGED <<wpc, event>>
       ELSE /\ wpc' = "listen"
            /\ event' = NoEvent
            /\ UNCHANGED fileIdx
    /\ UNCHANGED <<otherVars, fsVars, envVars, tpc, dirIdx, files, listedOK, listedErr,
                   handled, closed>>

\* The handler on a request that names no issuer: CopyCA is never reached.
HandleSelfSigned(p) ==
    \/ HandleBegin(p)
    \/ HandleLoadIssuer(p)
    \/ HandleStat(p)
    \/ MakeParentsDirectories(p)
    \/ HandleLoadCert(p)
    \/ GeneratePrivateKey(p)
    \/ WriteKey(p)
    \/ GenerateCertificate(p)
    \/ WriteCert(p)
    \/ HandleReturn(p)

HandleCertificateRequestFile(p) ==
    \/ HandleBegin(p)
    \/ HandleLoadIssuer(p)
    \/ HandleStat(p)
    \/ MakeParentsDirectories(p)
    \/ HandleLoadCert(p)
    \/ GenerateOutFilesFromRequest(p)
    \/ HandleReturn(p)

\* ------------------------------------------------------------------------
\* manager.Start and LoadCertificateRequests (manager.go:10-54)
\* ------------------------------------------------------------------------

\* manager.go:44-49: ReadDir of the next directory; a failure returns from
\* LoadCertificateRequests.
ReadDir ==
    /\ tpc = "readdir"
    /\ LET dir == CertificateRequestsPaths[dirIdx] IN
       \E listed \in BOOLEAN :
          IF listed
          THEN /\ files' = DirEntries(dir)
               /\ fileIdx' = 1
               /\ listedOK' = listedOK \cup {dir}
               /\ tpc' = "files"
               /\ UNCHANGED listedErr
          ELSE /\ listedErr' = listedErr \cup {dir}
               /\ tpc' = "select"
               /\ UNCHANGED <<files, fileIdx, listedOK>>
    /\ UNCHANGED <<otherVars, fsVars, envVars, dirIdx, handled, watchVars, handlerVars>>

\* manager.go:50-52: the call of the handler on the next file
NextFile ==
    /\ tpc = "files"
    /\ hpc["tick"] = "idle"
    /\ fileIdx <= Len(files)
    /\ cur' = [cur EXCEPT !["tick"] = files[fileIdx]]
    /\ hpc' = [hpc EXCEPT !["tick"] = "begin"]
    /\ handled' = handled \cup {files[fileIdx]}
    /\ UNCHANGED <<otherVars, fsVars, envVars, tpc, dirIdx, files, fileIdx, listedOK,
                   listedErr, watchVars, req, issuer, newKey, notAfter, log>>

\* manager.go:44, 50: the end of the inner loop and the step of the outer
EndDir ==
    /\ tpc = "files"
    /\ hpc["tick"] = "idle"
    /\ fileIdx > Len(files)
    /\ IF dirIdx < Len(CertificateRequestsPaths)
       THEN /\ dirIdx' = dirIdx + 1
            /\ tpc' = "readdir"
       ELSE /\ tpc' = "select"
            /\ UNCHANGED dirIdx
    /\ UNCHANGED <<otherVars, fsVars, envVars, files, fileIdx, listedOK, listedErr,
                   handled, watchVars, handlerVars>>

LoadCertificateRequests == ReadDir \/ NextFile \/ EndDir

\* A loop that starts a pass at every tick, whatever it is doing
SelectTick_duringPass ==
    /\ tpc # "exited"
    /\ tickerC = 1
    /\ tickerC' = 0
    /\ tpc' = "readdir"
    /\ dirIdx' = 1
    /\ files' = <<>>
    /\ fileIdx' = 1
    /\ listedOK' = {}
    /\ listedErr' = {}
    /\ handled' = {}
    /\ UNCHANGED <<otherVars, fsVars, CertificateRequestsPaths, now, tickerOn, stopC,
                   stopPc, watchVars, handlerVars>>

\* A loop that takes the tick and goes back to its select without a pass
SelectTick_withoutPass ==
    /\ tpc = "select"
    /\ tickerC = 1
    /\ tickerC' = 0
    /\ UNCHANGED <<otherVars, fsVars, CertificateRequestsPaths, now, tickerOn, stopC,
                   stopPc, scanVars, watchVars, handlerVars>>

\* manager.go:19-20: case <-ticker.C: continue
SelectTick ==
    /\ tpc = "select"
    /\ tickerC = 1
    /\ tickerC' = 0
    /\ tpc' = "readdir"
    /\ dirIdx' = 1
    /\ files' = <<>>
    /\ fileIdx' = 1
    /\ listedOK' = {}
    /\ listedErr' = {}
    /\ handled' = {}
    /\ UNCHANGED <<otherVars, fsVars, CertificateRequestsPaths, now, tickerOn, stopC,
                   stopPc, watchVars, handlerVars>>

\* manager.go:21-22: case <-stop: return
SelectStop ==
    /\ tpc = "select"
    /\ stopC = 1
    /\ stopC' = 0
    /\ tpc' = "exited"
    /\ UNCHANGED <<otherVars, fsVars, CertificateRequestsPaths, now, tickerC, tickerOn,
                   stopPc, dirIdx, files, fileIdx, listedOK, listedErr, handled,
                   watchVars, handlerVars>>

Start == LoadCertificateRequests \/ SelectTick \/ SelectStop

\* The runtime delivers a tick into ticker.C; a tick that finds the channel
\* full is dropped.
TickFire ==
    /\ tickerOn
    /\ tickerC = 0
    /\ tickerC' = 1
    /\ UNCHANGED <<otherVars, fsVars, CertificateRequestsPaths, now, tickerOn, stopC,
                   stopPc, scanVars, watchVars, handlerVars>>

\* Time passes.
ClockAdvance ==
    /\ now < MaxTime
    /\ now' = now + 1
    /\ UNCHANGED <<otherVars, fsVars, CertificateRequestsPaths, tickerC, tickerOn, stopC,
                   stopPc, scanVars, watchVars, handlerVars>>

\* ------------------------------------------------------------------------
\* watcher.Start and listenEvents (watcher.go:16-61)
\* ------------------------------------------------------------------------

\* The events fsnotify may send: an operation on a file of a watched directory
Events ==
    UNION {{[Name |-> DirEntries(CertificateRequestsPaths[i])[j], Op |-> op] :
               j \in 1..Len(DirEntries(CertificateRequestsPaths[i])),
               op \in EventOps} :
           i \in 1..Len(CertificateRequestsPaths)}

\* The listener that passes every event to the handler, whatever its operation
ListenEvent_anyOp ==
    /\ wpc = "listen"
    /\ ~closed
    /\ \E e \in Events :
          /\ event' = e
          /\ IF GetExtensionOK(e.Name)
             THEN /\ cur' = [cur EXCEPT !["watch"] = e.Name]
                  /\ hpc' = [hpc EXCEPT !["watch"] = "begin"]
                  /\ wpc' = "handling"
             ELSE UNCHANGED <<cur, hpc, wpc>>
    /\ UNCHANGED <<otherVars, fsVars, envVars, scanVars, closed,
                   req, issuer, newKey, notAfter, log>>

\* watcher.go:44-53: watcher.Events is unbuffered, so the listener receives
\* an event in the step in which fsnotify sends it; the handler is called
\* for a write on a file with a supported extension.
ListenEvent ==
    /\ wpc = "listen"
    /\ ~closed
    /\ \E e \in Events :
          /\ event' = e
          /\ IF e.Op = "WRITE" /\ GetExtensionOK(e.Name)
             THEN /\ cur' = [cur EXCEPT !["watch"] = e.Name]
                  /\ hpc' = [hpc EXCEPT !["watch"] = "begin"]
                  /\ wpc' = "handling"
             ELSE UNCHANGED <<cur, hpc, wpc>>
    /\ UNCHANGED <<otherVars, fsVars, envVars, scanVars, closed,
                   req, issuer, newKey, notAfter, log>>

\* watcher.go:54-58: an error received from watcher.Errors is logged
ListenError ==
    /\ wpc = "listen"
    /\ ~closed
    /\ log' = [log EXCEPT !["watch"] = <<"ErrWatch">>]
    /\ UNCHANGED <<otherVars, fsVars, envVars, scanVars, watchVars,
                   hpc, cur, req, issuer, newKey, notAfter>>

\* watcher.go:45-47, 55-57: a receive on a closed channel
ListenClosed ==
    /\ wpc = "listen"
    /\ closed
    /\ wpc' = "exited"
    /\ UNCHANGED <<otherVars, fsVars, envVars, scanVars, event, closed, handlerVars>>

listenEvents == ListenEvent \/ ListenError \/ ListenClosed

\* ------------------------------------------------------------------------
\* Shutdown: the stop functions, last pushed first (daemon.go:40-47)
\* ------------------------------------------------------------------------

\* watcher.go:22-26: watcher.Close()
StopWatcher ==
    /\ stopPc = "running"
    /\ closed' = TRUE
    /\ stopPc' = "watcherClosed"
    /\ UNCHANGED <<otherVars, fsVars, CertificateRequestsPaths, now, tickerC, tickerOn,
                   stopC, scanVars, wpc, event, handlerVars>>

\* manager.go:28: ticker.Stop() leaves a tick that is already in ticker.C
StopTicker ==
    /\ stopPc = "watcherClosed"
    /\ tickerOn' = FALSE
    /\ stopPc' = "tickerStopped"
    /\ UNCHANGED <<otherVars, fsVars, CertificateRequestsPaths, now, tickerC, stopC,
                   scanVars, watchVars, handlerVars>>

\* A stop function that returns without sending on the stop channel
StopSend_sendsNothing ==
    /\ stopPc = "tickerStopped"
    /\ stopPc' = "returned"
    /\ UNCHANGED <<otherVars, fsVars, CertificateRequestsPaths, now, tickerC, tickerOn,
                   stopC, scanVars, watchVars, handlerVars>>

\* manager.go:29: stop <- struct{}{} on a channel of capacity 1
StopSend ==
    /\ stopPc = "tickerStopped"
    /\ stopC = 0
    /\ stopC' = 1
    /\ stopPc' = "returned"
    /\ UNCHANGED <<otherVars, fsVars, CertificateRequestsPaths, now, tickerC, tickerOn,
                   scanVars, watchVars, handlerVars>>

Shutdown == StopWatcher \/ StopTicker \/ StopSend

\* part_009:115-122: the deferred stop functions have returned, runManager
\* returns to main, and the process ends with the goroutines it still has.
ProcessExit ==
    /\ stopPc = "returned"
    /\ stopPc' = "exit"
    /\ UNCHANGED <<otherVars, fsVars, CertificateRequestsPaths, now, tickerC, tickerOn,
                   stopC, scanVars, watchVars, handlerVars>>

\* The process has not ended.
Running == stopPc # "exit"

\* ------------------------------------------------------------------------
\* LoadIssuer called on its own (part_003:25-39)
\* ------------------------------------------------------------------------

\* A call of LoadIssuer on any IssuerPath and any content of its two files
InitIssuer ==
    /\ InitDaemon(<<>>)
    /\ InitNoAgent
    /\ InitNoCalls
    /\ issuerPath \in [issuerPublicKey : {"", "ca.crt"},
                       issuerPrivateKey : {"", "ca.key"}]
    /\ issuerPair \in [cert : IssuerCertKinds, key : IssuerKeyKinds]
    /\ issuerRet = ""

CallLoadIssuer ==
    /\ issuerRet = ""
    /\ issuerRet' = LoadIssuer(issuerPath, issuerPair)
    /\ UNCHANGED <<fsVars, envVars, scanVars, watchVars, handlerVars,
                   pkiVars, ekuVars, stopVars,
                   issuerPath, issuerPair, agentVars>>

\* ------------------------------------------------------------------------
\* The agent: StoreCertificate (agent.go:80-131) and the content-aware
\* WritePemToFile (part_005:24-62), one step per system call
\* ------------------------------------------------------------------------

\* The bytes a client may send as a payload: none, bytes without a PEM
\* block, the encoding of one block, and a block with more bytes around it
PayloadBytes(k) ==
    CASE k = "public_key" ->
            {NoBytes, Bytes("text", "", FALSE), Bytes("pem", "cert1", FALSE),
             Bytes("pem", "cert1", TRUE), Bytes("pem", "cert2", FALSE)}
      [] k = "private_key" ->
            {NoBytes, Bytes("text", "", FALSE), Bytes("pem", "key1", FALSE)}
      [] k = "ca" ->
            {NoBytes, Bytes("text", "", FALSE), Bytes("pem", "ca1", FALSE)}

\* The Requests a client may send
Requests ==
    [PublicKeyPath : {"", "tls.crt"}, PublicKeyData : PayloadBytes("public_key"),
     PrivateKeyPath : {"", "tls.key"}, PrivateKeyData : PayloadBytes("private_key"),
     CaPath : {"", "ca.crt"}, CaData : PayloadBytes("ca")]

\* What a destination may hold when a call arrives: no file, a file that a
\* failed call left truncated, a file that something else wrote, or what an
\* earlier call wrote there
InitAgentFiles(f) ==
    CASE f = "tls.crt" ->
            {NoFile, NoBytes, Bytes("text", "", FALSE),
             Bytes("pem", "cert1", FALSE), Bytes("pem", "cert1", TRUE)}
      [] f = "tls.key" -> {NoFile, NoBytes, Bytes("pem", "key1", FALSE)}
      [] f = "ca.crt"  -> {NoFile, NoBytes, Bytes("pem", "ca1", FALSE)}

\* The agent serves and a call arrives.
InitAgent ==
    /\ InitDaemon(<<>>)
    /\ InitNoIssuerCall
    /\ InitNoCalls
    /\ agentFile \in [AgentPaths -> UNION {InitAgentFiles(f) : f \in AgentPaths}]
    /\ \A f \in AgentPaths : agentFile[f] \in InitAgentFiles(f)
    /\ request = NoStoreRequest
    /\ spc = "idle"
    /\ status = ""
    /\ trace = <<>>
    /\ resent = FALSE

\* gRPC hands a Request to StoreCertificate.
ReceiveRequest ==
    /\ spc = "idle"
    /\ \E r \in Requests : request' = r
    /\ spc' = "validate"
    /\ status' = ""
    /\ trace' = <<>>
    /\ resent' = FALSE
    /\ UNCHANGED <<fsVars, envVars, scanVars, watchVars, handlerVars,
                   pkiVars, ekuVars, stopVars,
                   issuerVars, agentFile>>

\* The client sends the Request of a call that succeeded once more.
ResendRequest ==
    /\ spc = "done"
    /\ status = "OK"
    /\ ~resent
    /\ spc' = "validate"
    /\ status' = ""
    /\ trace' = <<>>
    /\ resent' = TRUE
    /\ UNCHANGED <<fsVars, envVars, scanVars, watchVars, handlerVars,
                   pkiVars, ekuVars, stopVars,
                   issuerVars, agentFile, request>>

\* agent.go:82-84: validate
Validate ==
    /\ spc = "validate"
    /\ IF validate(request) # ""
       THEN /\ status' = validate(request)
            /\ spc' = "done"
       ELSE /\ spc' = "public_key"
            /\ UNCHANGED status
    /\ UNCHANGED <<fsVars, envVars, scanVars, watchVars, handlerVars,
                   pkiVars, ekuVars, stopVars,
                   issuerVars, agentFile, request, trace, resent>>

\* The position of StoreCertificate between os.Create and pem.Encode of k
Encoding(k) ==
    CASE k = "public_key"  -> "public_key encode"
      [] k = "private_key" -> "private_key encode"
      [] k = "ca"          -> "ca encode"

\* agent.go:93, 100-104, 111: what follows the write of payload k
Proceed(k) ==
    IF k = "public_key" THEN spc' = "private_key" /\ UNCHANGED status
    ELSE IF k = "private_key" /\ request.CaPath # ""
    THEN spc' = "ca" /\ UNCHANGED status
    ELSE spc' = "done" /\ status' = "OK"

\* A StoreCertificate that answers every error of WritePemToFile alike
Fail_alwaysInternal(k, err) ==
    /\ spc' = "done"
    /\ status' = ErrInternal

\* agent.go:87-90, 94-97, 105-108: the status for an error of WritePemToFile
Fail(k, err) ==
    /\ spc' = "done"
    /\ status' = IF err = "ErrInvalidPEMBlock"
                 THEN CASE k = "public_key"  -> "Invalid public_key_data"
                        [] k = "private_key" -> "Invalid private_key_data"
                        [] k = "ca"          -> "Invalid ca_data"
                 ELSE ErrInternal

\* A write whose failure to create the file removes the files of the call
WritePemToFile_removesOnFailure(k) ==
    /\ spc = k
    /\ LET b == DataOf(request, k)
           file == PathOf(request, k)
       IN  IF contentsAreEquals(b, agentFile[file])
           THEN /\ trace' = Append(trace, <<"call", k>>)
                /\ Proceed(k)
                /\ UNCHANGED agentFile
           ELSE IF pemDecode(b) = ""
           THEN /\ trace' = Append(trace, <<"call", k>>)
                /\ Fail(k, "ErrInvalidPEMBlock")
                /\ UNCHANGED agentFile
           ELSE \E created \in BOOLEAN :
                  IF created
                  THEN /\ agentFile' = [agentFile EXCEPT ![file] = NoBytes]
                       /\ trace' = Append(Append(trace, <<"call", k>>),
                                          <<"create", k>>)
                       /\ spc' = Encoding(k)
                       /\ UNCHANGED status
                  ELSE /\ trace' = Append(trace, <<"call", k>>)
                       /\ Fail(k, "ErrCreateFile")
                       /\ agentFile' = [f \in AgentPaths |-> NoFile]
    /\ UNCHANGED <<fsVars, envVars, scanVars, watchVars, handlerVars,
                   pkiVars, ekuVars, stopVars,
                   issuerVars, request, resent>>

\* part_005:24-39: WritePemToFile of payload k up to os.Create, which
\* truncates the file
WritePemToFile(k) ==
    /\ spc = k
    /\ LET b == DataOf(request, k)
           file == PathOf(request, k)
       IN  IF contentsAreEquals(b, agentFile[file])
           THEN /\ trace' = Append(trace, <<"call", k>>)
                /\ Proceed(k)
                /\ UNCHANGED agentFile
           ELSE IF pemDecode(b) = ""
           THEN /\ trace' = Append(trace, <<"call", k>>)
                /\ Fail(k, "ErrInvalidPEMBlock")
                /\ UNCHANGED agentFile
           ELSE \E created \in BOOLEAN :
                  IF created
                  THEN /\ agentFile' = [agentFile EXCEPT ![file] = NoBytes]
                       /\ trace' = Append(Append(trace, <<"call", k>>),
                                          <<"create", k>>)
                       /\ spc' = Encoding(k)
                       /\ UNCHANGED status
                  ELSE /\ trace' = Append(trace, <<"call", k>>)
                       /\ Fail(k, "ErrCreateFile")
                       /\ UNCHANGED agentFile
    /\ UNCHANGED <<fsVars, envVars, scanVars, watchVars, handlerVars,
                   pkiVars, ekuVars, stopVars,
                   issuerVars, request, resent>>

\* part_005:42-46: pem.Encode of the decoded block into the file
EncodePem(k) ==
    /\ spc = Encoding(k)
    /\ \E encoded \in BOOLEAN :
          IF encoded
          THEN /\ agentFile' = [agentFile EXCEPT ![PathOf(request, k)] =
                                    pemEncode(pemDecode(DataOf(request, k)))]
               /\ Proceed(k)
          ELSE /\ Fail(k, "ErrEncode")
               /\ UNCHANGED agentFile
    /\ UNCHANGED <<fsVars, envVars, scanVars, watchVars, handlerVars,
                   pkiVars, ekuVars, stopVars,
                   issuerVars, request, trace, resent>>

StoreCertificate ==
    \/ Validate
    \/ \E i \in 1..Len(Payloads) : WritePemToFile(Payloads[i])
    \/ \E i \in 1..Len(Payloads) : EncodePem(Payloads[i])

\* ------------------------------------------------------------------------
\* pki.go called on its own: GeneratePrivateKey, then GenerateCertificate
\* ------------------------------------------------------------------------

\* The algorithm names a request may carry
Algorithms ==
    {"", "rsa", "RSA", "ecdsa", "ECDSA", "ed25519", "Ed25519", "invalid"}

\* The sizes a request may carry: the zero value, a negative one, and the
\* values at and around every limit pki.go tests
Sizes ==
    {-1, 0, 1, 255, 256, 257, 384, 521, 1024, MinRSAKeySize - 1, MinRSAKeySize,
     MinRSAKeySize + 1, 4096, MaxRSAKeySize - 1, MaxRSAKeySize,
     MaxRSAKeySize + 1}

\* The keyUsages lists a request file may carry
KeyUsagesLists ==
    {<<>>, <<"cert sign">>, <<"Key Encipherment", "CRL Sign">>}

\* A call of GeneratePrivateKey on any request, over any key file
InitPki ==
    /\ InitDaemon(<<>>)
    /\ InitNoIssuerCall
    /\ InitNoAgent
    /\ InitNoEku
    /\ InitNoStops
    /\ \E a \in Algorithms, n \in Sizes, c \in BOOLEAN, l \in KeyUsagesLists :
          genReq = [Algorithm |-> a, Size |-> n, IsCA |-> c,
                    KeyUsage |-> RequestKeyUsage(l)]
    /\ gpc = "genkey"
    /\ genRet = KeyResult("", "", Nil)
    /\ outKey \in {Absent, File("pem", "RSA PRIVATE KEY", 0, 0)}
    /\ keyUsage = {}

\* pki.go:47-75 and WritePemToFile up to os.Create of the key file
PkiGeneratePrivateKey ==
    /\ gpc = "genkey"
    /\ \E randOK \in BOOLEAN, created \in BOOLEAN :
          LET res == generatePrivateKey(genReq.Algorithm, genReq.Size, randOK)
          IN  IF res.err # Nil
              THEN /\ genRet' = res
                   /\ gpc' = "done"
                   /\ UNCHANGED outKey
              ELSE IF ~created
              THEN /\ genRet' = KeyResult("", "",
                          WrapErrors("ErrGenerateKey", <<"ErrCreateFile">>))
                   /\ gpc' = "done"
                   /\ UNCHANGED outKey
              ELSE /\ genRet' = res
                   /\ outKey' = Empty
                   /\ gpc' = "keyencode"
    /\ UNCHANGED <<fsVars, envVars, scanVars, watchVars, handlerVars,
                   issuerVars, agentVars, ekuVars, stopVars, genReq, keyUsage>>

\* WritePemToFile of the key, second half, and pki.go:72-77
PkiWriteKey ==
    /\ gpc = "keyencode"
    /\ \E encoded \in BOOLEAN :
          IF encoded
          THEN /\ outKey' = File("pem", genRet.type, 1, 0)
               /\ gpc' = "gencert"
               /\ UNCHANGED genRet
          ELSE /\ genRet' = KeyResult("", "",
                      WrapErrors("ErrGenerateKey", <<"ErrEncode">>))
               /\ gpc' = "done"
               /\ UNCHANGED outKey
    /\ UNCHANGED <<fsVars, envVars, scanVars, watchVars, handlerVars,
                   issuerVars, agentVars, ekuVars, stopVars, genReq, keyUsage>>

\* pki.go:143-198: the template and x509.CreateCertificate, which copies the
\* KeyUsage of the template into the certificate
PkiGenerateCertificate ==
    /\ gpc = "gencert"
    /\ \E signed \in BOOLEAN :
          keyUsage' = IF signed THEN TemplateKeyUsage(genReq, genRet.key)
                      ELSE {}
    /\ gpc' = "done"
    /\ UNCHANGED <<fsVars, envVars, scanVars, watchVars, handlerVars,
                   issuerVars, agentVars, ekuVars, stopVars, genReq, genRet,
                   outKey>>

\* ------------------------------------------------------------------------
\* The extKeyUsages of a request file (part_001:156-162)
\* ------------------------------------------------------------------------

\* The names of the extended key usages, in lower case
ExtKeyUsageNames ==
    {"any", "server auth", "client auth", "code signing", "email protection",
     "ipsec end system", "ipsec tunnel", "ipsec user", "time stamping",
     "ocsp signing", "microsoft server gated crypto",
     "netscape server gated crypto", "microsoft commercial code signing",
     "microsoft kernel code signing"}

\* The tokens a request file may carry: the names in lower case and with
\* capitals, the spellings of the switch's literal, and tokens that name
\* nothing
ExtKeyUsageTokens ==
    ExtKeyUsageNames
    \cup {"ANY", "Server Auth", "Client Auth", "Code Signing",
          "Email Protection", "IPSEC End System", "IPSec Tunnel", "IPSEC USER",
          "Time Stamping", "OCSP Signing", "Microsoft Server Gated Crypto",
          "Netscape Server Gated Crypto", "Microsoft Commercial Code Signing",
          "Microsoft Kernel Code Signing"}
    \cup {"CodeSigning", "codesigning", "CODESIGNING", "bogus", "Bogus", ""}

\* The lists of one to MaxExtKeyUsages tokens
ExtKeyUsagesLists ==
    UNION {[1..n -> ExtKeyUsageTokens] : n \in 1..MaxExtKeyUsages}

\* part_001:156-162: the loop appends the constant of every token and
\* returns, at the first token that names nothing, an error that carries it
ExtKeyUsageOf(l) ==
    LET bad == {i \in 1..Len(l) : findExtKeyUsage(l[i]) = ""} IN
    IF bad # {}
    THEN LET i == CHOOSE j \in bad : \A k \in bad : j <= k
         IN  [ExtKeyUsage |-> <<>>, err |-> <<"ErrInvalidExtKeyUsages", l[i]>>]
    ELSE [ExtKeyUsage |-> [i \in 1..Len(l) |-> findExtKeyUsage(l[i])],
          err |-> Nil]

\* LoadCertificateRequest reads a file with any list of extKeyUsages.
InitEku ==
    /\ InitDaemon(<<>>)
    /\ InitNoIssuerCall
    /\ InitNoAgent
    /\ InitNoPki
    /\ InitNoStops
    /\ extKeyUsages \in ExtKeyUsagesLists
    /\ ekuRet = NoEkuResult

\* part_001:156-162, once
LoadExtKeyUsages ==
    /\ ekuRet = NoEkuResult
    /\ ekuRet' = ExtKeyUsageOf(extKeyUsages)
    /\ UNCHANGED <<fsVars, envVars, scanVars, watchVars, handlerVars,
                   issuerVars, agentVars, pkiVars, stopVars, extKeyUsages>>

\* ------------------------------------------------------------------------
\* The stack of stop functions (daemon.go:35-60)
\* ------------------------------------------------------------------------

\* The stop functions that runManager and runAgent push
StopFuncs == {"manager.Start", "watcher.Start", "agent.Start"}

\* A pop that takes the function pushed first
PopGracefulStop_fromFront(stack) ==
    [stop |-> stack[1], rest |-> SubSeq(stack, 2, Len(stack))]

\* daemon.go:51-56: the function pushed last, and the stack without it
PopGracefulStop(stack) ==
    [stop |-> stack[Len(stack)], rest |-> SubSeq(stack, 1, Len(stack) - 1)]

\* main is about to push its stop functions.
InitStops ==
    /\ InitDaemon(<<>>)
    /\ InitNoIssuerCall
    /\ InitNoAgent
    /\ InitNoPki
    /\ InitNoEku
    /\ gracefulStops = <<>>
    /\ pushed = <<>>
    /\ stopCalls = <<>>
    /\ dpc = "main"

\* daemon.go:58-60
PushGracefulStop(f) ==
    /\ dpc = "main"
    /\ Len(gracefulStops) < MaxStops
    /\ gracefulStops' = Append(gracefulStops, f)
    /\ pushed' = Append(pushed, f)
    /\ UNCHANGED <<fsVars, envVars, scanVars, watchVars, handlerVars,
                   issuerVars, agentVars, pkiVars, ekuVars, stopCalls, dpc>>

\* daemon.go:35-36: Shutdown calls callGracefulStops
CallShutdown ==
    /\ dpc = "main"
    /\ dpc' = "shutdown"
    /\ UNCHANGED <<fsVars, envVars, scanVars, watchVars, handlerVars,
                   issuerVars, agentVars, pkiVars, ekuVars, gracefulStops,
                   pushed, stopCalls>>

\* daemon.go:40-47, one level of the recursion: return on an empty stack,
\* else pop, call the function, which returns, and recurse
callGracefulStops ==
    /\ dpc = "shutdown"
    /\ IF Len(gracefulStops) = 0
       THEN /\ dpc' = "stopped"
            /\ UNCHANGED <<gracefulStops, stopCalls>>
       ELSE /\ gracefulStops' = PopGracefulStop(gracefulStops).rest
            /\ stopCalls' = Append(stopCalls, PopGracefulStop(gracefulStops).stop)
            /\ UNCHANGED dpc
    /\ UNCHANGED <<fsVars, envVars, scanVars, watchVars, handlerVars,
                   issuerVars, agentVars, pkiVars, ekuVars, pushed>>

\* ------------------------------------------------------------------------
\* Specifications
\* ------------------------------------------------------------------------

\* Both goroutines at work on one watch directory
Next ==
    \/ \E p \in Procs : HandleCertificateRequestFile(p)
    \/ LoadCertificateRequests
    \/ SelectTick
    \/ TickFire
    \/ ListenEvent
    \/ ListenError

Spec == Init /\ [][Next]_vars

\* The scan goroutine alone, over two watch directories, as time passes
NextScan ==
    \/ HandleCertificateRequestFile("tick")
    \/ LoadCertificateRequests
    \/ SelectTick
    \/ TickFire
    \/ ClockAdvance

SpecScan == InitScan /\ [][NextScan]_vars

\* The scan goroutine and the shutdown sequence
NextStop ==
    \/ HandleCertificateRequestFile("tick")
    \/ Start
    \/ TickFire
    \/ ListenError
    \/ ListenClosed
    \/ Shutdown

SpecStop == Init /\ [][NextStop]_vars

\* The scan goroutine, the shutdown sequence and the end of the process
NextExit ==
    \/ Running /\ HandleCertificateRequestFile("tick")
    \/ Running /\ Start
    \/ Running /\ TickFire
    \/ Running /\ ListenClosed
    \/ Shutdown
    \/ ProcessExit

SpecExit == Init /\ [][NextExit]_vars

\* Both goroutines and the shutdown sequence, on a request that names no
\* issuer.  The Go scheduler runs every goroutine that can take a step, which
\* makes each loop weakly fair.
NextLive ==
    \/ \E p \in Procs : HandleSelfSigned(p)
    \/ Start
    \/ TickFire
    \/ listenEvents
    \/ Shutdown

SpecLive ==
    /\ InitLive
    /\ [][NextLive]_vars
    /\ WF_vars(Start \/ HandleSelfSigned("tick"))
    /\ WF_vars(listenEvents \/ HandleSelfSigned("watch"))

\* The agent serving a call and its repetition
NextAgent ==
    \/ ReceiveRequest
    \/ ResendRequest
    \/ StoreCertificate

SpecAgent == InitAgent /\ [][NextAgent]_vars

\* LoadIssuer on every input
NextIssuer == CallLoadIssuer

SpecIssuer == InitIssuer /\ [][NextIssuer]_vars

\* GeneratePrivateKey and GenerateCertificate on every request
NextPki ==
    \/ PkiGeneratePrivateKey
    \/ PkiWriteKey
    \/ PkiGenerateCertificate

SpecPki == InitPki /\ [][NextPki]_vars

\* The loop over extKeyUsages on every list
NextEku == LoadExtKeyUsages

SpecEku == InitEku /\ [][NextEku]_vars

\* main pushes stop functions and calls Shutdown, which runs to its end: the
\* main goroutine is always scheduled.
NextStops ==
    \/ \E f \in StopFuncs : PushGracefulStop(f)
    \/ CallShutdown
    \/ callGracefulStops

SpecStops == InitStops /\ [][NextStops]_vars /\ WF_vars(callGracefulStops)

\* The scan goroutine alone on one watch directory, as time passes.  The Go
\* scheduler runs the goroutine whenever it can take a step, and the runtime
\* delivers the ticks of a ticker that has not been stopped.
SpecRenew ==
    /\ Init
    /\ [][NextScan]_vars
    /\ WF_vars(Start \/ HandleCertificateRequestFile("tick"))
    /\ WF_vars(TickFire)

\* The scan goroutine alone on a request that renews at once, as time passes
NextEager ==
    \/ HandleSelfSigned("tick")
    \/ LoadCertificateRequests
    \/ SelectTick
    \/ TickFire
    \/ ClockAdvance

SpecEager == InitEager /\ [][NextEager]_vars

\* ------------------------------------------------------------------------
\* Properties
\* ------------------------------------------------------------------------

Has(seq, x) == \E i \in 1..Len(seq) : seq[i] = x

\* The certificate file holds a PEM block of type CERTIFICATE that parses.
Parses(f) == f.kind = "pem" /\ f.type = "CERTIFICATE"

\* p takes the step that loads and evaluates the certificate on disk.
Evaluates(p) == hpc[p] = "loadcert" /\ hpc'[p] # "loadcert"

\* p's invocation has created or truncated no output file.
WroteNothing(p) == newKey[p] = 0 /\ notAfter[p] = 0

\* C1: when the certificate on disk parses, the handler starts
\* GenerateOutFilesFromRequest if and only if NotAfter is strictly before
\* now + RenewBefore; otherwise it returns having written no file and logged
\* nothing more.
C1_RenewIffStrictlyBefore ==
    [][\A p \in Procs :
          (Evaluates(p) /\ Parses(cert[Out(p)])) =>
             IF cert[Out(p)].notAfter < now + req[p].renewBefore
             THEN hpc'[p] = "genkey"
             ELSE /\ hpc'[p] = "ret"
                  /\ WroteNothing(p)
                  /\ UNCHANGED <<fsVars, log, newKey, notAfter>>]_vars

\* C1 witness: a renewal has been decided on a certificate that parses.
C1_Witness ==
    \E p \in Procs :
       /\ hpc[p] = "genkey"
       /\ log[p] = <<"Handle", "Expired">>
       /\ Parses(cert[Out(p)])
       /\ cert[Out(p)].notAfter < now + req[p].renewBefore

\* C2, as stated: a certificate whose NotAfter is exactly now + RenewBefore
\* is renewed.
C2_BoundaryRenews ==
    [][\A p \in Procs :
          (/\ Evaluates(p)
           /\ Parses(cert[Out(p)])
           /\ cert[Out(p)].notAfter = now + req[p].renewBefore)
          => hpc'[p] = "genkey"]_vars

\* C2, amended: a certificate whose NotAfter is exactly now + RenewBefore is
\* left alone: the handler returns without generating or writing anything.
C2_BoundaryIsNoOp ==
    [][\A p \in Procs :
          (/\ Evaluates(p)
           /\ Parses(cert[Out(p)])
           /\ cert[Out(p)].notAfter = now + req[p].renewBefore)
          => /\ hpc'[p] = "ret"
             /\ WroteNothing(p)
             /\ UNCHANGED <<fsVars, log>>]_vars

\* C2 witness: the handler has returned from the evaluation of a certificate
\* whose NotAfter is exactly now + RenewBefore.
C2_Witness ==
    \E p \in Procs :
       /\ hpc[p] = "ret"
       /\ req[p].ok
       /\ log[p] = <<"Handle">>
       /\ Parses(cert[Out(p)])
       /\ cert[Out(p)].notAfter = now + req[p].renewBefore

\* C3: an absent certificate file leads to MakeParentsDirectories without any
\* error line; generation starts from there only with the directory in
\* place; a failed directory creation returns with nothing generated,
\* written or logged; and the output directory exists whenever a generation
\* starts.
C3_AbsentCreatesDirsThenGenerates ==
    /\ [](\A p \in Procs : hpc[p] = "genkey" => dirExists[Out(p)])
    /\ [][\A p \in Procs :
            /\ (hpc[p] = "stat" /\ hpc'[p] # "stat"
                  /\ cert[Out(p)].kind = "absent")
               => (hpc'[p] = "mkdir" /\ log'[p] = <<"Handle">>)
            /\ (hpc[p] = "mkdir" /\ hpc'[p] = "genkey")
               => (dirExists'[Out(p)] /\ log'[p] = <<"Handle">>)
            /\ (hpc[p] = "mkdir" /\ hpc'[p] \notin {"mkdir", "genkey"})
               => /\ hpc'[p] = "ret"
                  /\ WroteNothing(p)
                  /\ UNCHANGED <<fsVars, log, newKey, notAfter>>]_vars

\* C3 witness: generation is about to start for a certificate that was
\* absent, in a directory that MakeParentsDirectories has created.
C3_Witness ==
    \E p \in Procs :
       /\ hpc[p] = "genkey"
       /\ log[p] = <<"Handle">>
       /\ cert[Out(p)].kind = "absent"
       /\ key[Out(p)].kind = "absent"
       /\ dirExists[Out(p)]

\* C4: a certificate file that exists and does not load is logged as invalid
\* and regenerated with the same request and issuer as an absent one, and
\* the scan stays in its loop over the files of the directory.
C4_UnloadableRegenerates ==
    /\ [](hpc["tick"] # "idle" => tpc = "files")
    /\ [][\A p \in Procs :
            (Evaluates(p) /\ ~Parses(cert[Out(p)]))
            => /\ hpc'[p] = "genkey"
               /\ log'[p] = <<"Handle", "ErrInvalidCert">>
               /\ UNCHANGED <<fsVars, req, issuer, tpc, dirIdx, fileIdx>>]_vars

\* C4 witness: generation is about to start for a certificate file whose PEM
\* block is not a certificate.
C4_Witness ==
    \E p \in Procs :
       /\ hpc[p] = "genkey"
       /\ log[p] = <<"Handle", "ErrInvalidCert">>
       /\ cert[Out(p)].kind = "wrongtype"

\* C5, as stated: when two invocations for the same request file have both
\* generated without a failure and both finished, the key file and the
\* certificate file hold the key and the certificate of one generation.
C5_ConcurrentPairMatches ==
    (/\ hpc["tick"] = "ret"
     /\ hpc["watch"] = "ret"
     /\ cur["tick"] = cur["watch"]
     /\ \A p \in Procs : newKey[p] # 0 /\ ~Has(log[p], "Failure"))
    => LET o == Out("tick") IN
       /\ key[o].kind = "pem"
       /\ Parses(cert[o])
       /\ key[o].id = cert[o].id

\* p's invocation left its new key and its new certificate on disk.
BothNew(p) ==
    /\ newKey[p] # 0
    /\ key[Out(p)].kind = "pem" /\ key[Out(p)].id = newKey[p]
    /\ Parses(cert[Out(p)]) /\ cert[Out(p)].id = newKey[p]

\* C6, as stated: when GenerateOutFilesFromRequest has returned, the key file
\* and the certificate file are both the new ones or both untouched.
C6_RegenerationAtomic ==
    \A p \in Procs :
       (hpc[p] = "ret" /\ Has(log[p], "GenKey"))
       => (BothNew(p) \/ WroteNothing(p))

\* The position of a line in a log (0 when the log does not have it)
Pos(seq, x) == IF Has(seq, x) THEN CHOOSE i \in 1..Len(seq) : seq[i] = x ELSE 0

Count(seq, x) == Cardinality({i \in 1..Len(seq) : seq[i] = x})

\* C7: the phases are logged in the order generate key, generate
\* certificate, copy CA, each at most once; a failure is logged once, as the
\* last line, and ends the run; the CA copy is attempted only with an issuer
\* and after both the key and the certificate have been written.
C7_PhasesInOrder ==
    \A p \in Procs :
       LET L == log[p] IN
       /\ Count(L, "GenKey") <= 1 /\ Count(L, "GenCert") <= 1
       /\ Count(L, "CopyCA") <= 1 /\ Count(L, "Failure") <= 1
       /\ Has(L, "GenCert") => (Has(L, "GenKey") /\ Pos(L, "GenKey") < Pos(L, "GenCert"))
       /\ Has(L, "CopyCA") => (Has(L, "GenCert") /\ Pos(L, "GenCert") < Pos(L, "CopyCA"))
       /\ Has(L, "Failure") => (Pos(L, "Failure") = Len(L) /\ hpc[p] = "ret")
       /\ (Has(L, "CopyCA") \/ hpc[p] \in {"copyca", "caencode"})
          => (issuer[p] /\ Has(L, "GenCert") /\ BothNew(p))
       /\ (Has(L, "GenCert") \/ hpc[p] \in {"gencert", "certencode"})
          => (key[Out(p)].kind = "pem" /\ key[Out(p)].id = newKey[p])

\* C7 witness: a run with an issuer has ended on a failure of the
\* certificate phase.
C7_Witness ==
    \E p \in Procs :
       /\ hpc[p] = "ret"
       /\ issuer[p]
       /\ Has(log[p], "GenCert")
       /\ log[p][Len(log[p])] = "Failure"

\* The files of a directory
EntrySet(d) == {DirEntries(d)[j] : j \in 1..Len(DirEntries(d))}

\* The scan is between two passes or has exited.
PassOver == tpc \in {"select", "exited"}

\* C8: at the end of a pass every file of every directory that was listed
\* has been handed to the handler, whatever happened to the files before it,
\* and the scan goroutine exits only by receiving from the stop channel.
C8_FailureDoesNotStopScan ==
    /\ [](PassOver => \A d \in listedOK : EntrySet(d) \subseteq handled)
    /\ [](tpc = "files" =>
             \A j \in 1..(fileIdx - 1) : j <= Len(files) => files[j] \in handled)
    /\ [][tpc' = "exited" => (tpc = "exited" \/ (tpc = "select" /\ stopC = 1))]_vars

\* C8 witness: a pass is over in which the generation for the first file
\* failed while writing the certificate, and the files after it were handled.
C8_Witness ==
    /\ tpc = "select"
    /\ "d1" \in listedOK
    /\ EntrySet("d1") \subseteq handled
    /\ cert["outA"].kind = "empty"

\* C9, as stated: at the end of a pass every configured directory has been
\* listed, successfully or not, and the files of every directory that was
\* listed have been handled.
C9_ListingFailureIsLocal ==
    PassOver =>
       /\ listedOK \cup listedErr =
             {CertificateRequestsPaths[i] : i \in 1..Len(CertificateRequestsPaths)}
       /\ \A d \in listedOK : EntrySet(d) \subseteq handled

\* C10, as stated: a pass runs at once, every later pass starts by taking a
\* tick, and no pass starts once the stop function has returned.
C10_NoPassAfterStop ==
    [][(tpc = "select" /\ tpc' = "readdir")
       => (tickerC = 1 /\ tickerC' = 0 /\ stopPc # "returned")]_vars

\* A write of p is in progress: the file has been created or truncated and
\* its PEM block is not encoded yet.
WriteInProgress(p) == hpc[p] \in {"keyencode", "certencode", "caencode"}

\* C11, as stated: when the process ends after the stop signal, no file
\* handling is in flight; in particular no key, certificate or CA write is
\* in progress.
C11_ExitWaitsForInFlight ==
    stopPc = "exit" => \A p \in Procs : ~WriteInProgress(p)

Receives == event' # event /\ event' # NoEvent

\* The event is a write on a file whose extension viper supports.
WriteOnSupported(e) == e.Op = "WRITE" /\ Ext(e.Name) \in SupportedExts

\* C13: the listener calls the handler in the step in which it receives a
\* write event on a file with a supported extension, on that file, and
\* receives nothing more until the handler returns; every other event
\* changes nothing; the handler is never called without such an event; an
\* error from the watcher is logged and leaves the listener in its loop.
C13_HandlerOncePerWriteEvent ==
    /\ [](wpc # "exited")
    /\ [](wpc = "handling" <=> hpc["watch"] # "idle")
    /\ [][/\ Receives =>
                IF WriteOnSupported(event')
                THEN /\ hpc["watch"] = "idle"
                     /\ hpc'["watch"] = "begin"
                     /\ cur'["watch"] = event'.Name
                ELSE UNCHANGED <<fsVars, hpc, cur, wpc, log>>
          /\ (hpc["watch"] = "idle" /\ hpc'["watch"] # "idle")
                => (Receives /\ WriteOnSupported(event'))
          /\ (wpc = "handling" /\ wpc' = "handling") => event' = event
          /\ (log["watch"] # <<"ErrWatch">> /\ log'["watch"] = <<"ErrWatch">>)
                => (wpc' = "listen" /\ UNCHANGED <<fsVars, hpc, cur, event>>)]_vars

\* C13 witness: the handler called for a write event on a.yaml has finished
\* its work and is about to return to the listener, which is still waiting.
C13_Witness ==
    /\ hpc["watch"] = "ret"
    /\ event = [Name |-> "a.yaml", Op |-> "WRITE"]
    /\ cur["watch"] = "a.yaml"
    /\ wpc = "handling"

\* C14: for a file whose extension is missing or unsupported the handler
\* goes from its entry straight to its return: no request is loaded, no
\* line is logged, no file is created or changed, and it never reaches the
\* issuer, the evaluation or the generation.
C14_UnsupportedExtensionIsSkipped ==
    /\ [](\A p \in Procs :
            (hpc[p] # "idle" /\ Ext(cur[p]) \notin SupportedExts)
            => /\ hpc[p] \in {"begin", "ret"}
               /\ req[p] = NoRequest
               /\ log[p] = <<>>
               /\ WroteNothing(p))
    /\ [][\A p \in Procs :
            (hpc[p] = "begin" /\ Ext(cur[p]) \notin SupportedExts
               /\ hpc'[p] # "begin")
            => (hpc'[p] = "ret" /\ UNCHANGED <<fsVars, req, issuer, log>>)]_vars

\* C14 witness: the scan has called the handler on the file without
\* extension and the handler is about to return.
C14_Witness ==
    /\ hpc["tick"] = "ret"
    /\ cur["tick"] = "Makefile"
    /\ log["tick"] = <<>>

\* p's invocation failed to load its request or its issuer.
LoadFailed(p) == Has(log[p], "ErrLoadRequest") \/ Has(log[p], "ErrIssuer")

\* C15: a failure of LoadCertificateRequest or of LoadIssuer is the last
\* thing the invocation does: it is at its return, it has evaluated no
\* certificate and generated nothing, and the step that fails leaves every
\* key, certificate and CA file as it was.
C15_LoadFailureReturnsEarly ==
    /\ [](\A p \in Procs :
            LoadFailed(p)
            => /\ hpc[p] = "ret"
               /\ log[p][Len(log[p])] \in {"ErrLoadRequest", "ErrIssuer"}
               /\ ~Has(log[p], "ErrInvalidCert") /\ ~Has(log[p], "Expired")
               /\ ~Has(log[p], "GenKey")
               /\ WroteNothing(p))
    /\ [](\A p \in Procs :
            (hpc[p] \notin {"idle", "begin", "ret"})
            => (req[p].ok /\ req[p].out = RequestFile(cur[p]).outDir))
    /\ [](\A p \in Procs :
            (hpc[p] \notin {"idle", "begin", "issuer", "ret"})
            => (issuer[p] <=> RequestFile(cur[p]).issuerDir # ""))
    /\ [][\A p \in Procs :
            (~LoadFailed(p) /\ LoadFailed(p)')
            => (hpc[p] \in {"begin", "issuer"} /\ UNCHANGED fsVars)]_vars

\* C15 witness: the handler is about to return from f.yml, whose request
\* names the extended key usage "bogus".
C15_Witness ==
    /\ hpc["tick"] = "ret"
    /\ cur["tick"] = "f.yml"
    /\ log["tick"] = <<"Handle", "ErrLoadRequest">>

\* C16, as stated: LoadIssuer returns no issuer and no error exactly when
\* both paths are empty; with any other IssuerPath it loads the key pair,
\* and returns an issuer if the pair loads and an error if it does not.
C16_NoIssuerOnlyWhenBothEmpty ==
    issuerRet # "" =>
       LET bothEmpty == /\ issuerPath.issuerPublicKey = ""
                        /\ issuerPath.issuerPrivateKey = ""
           loads == issuerPair.cert = "pem" /\ issuerPair.key = "pem"
       IN  /\ issuerRet = "nil" <=> bothEmpty
           /\ (~bothEmpty /\ ~loads)
              => issuerRet \in {"ErrLoadIssuerKeyPair",
                                "ErrParseIssuerCertificate"}

\* The current call has created or truncated the file of payload k.
Rewrote(k) == Has(trace, <<"create", k>>)

\* The current call has called WritePemToFile on payload k.
Called(k) == Has(trace, <<"call", k>>)

PayloadSet == {Payloads[i] : i \in 1..Len(Payloads)}

\* C17, as stated: the second of two calls with the same bytes, the first of
\* which succeeded, rewrites no file; and a call of WritePemToFile that
\* succeeds rewrites the file, once, exactly when the bytes differ from the
\* content of the file.
C17_SecondCallRewritesNothing ==
    /\ [](resent => \A k \in PayloadSet : ~Rewrote(k))
    /\ [](\A k \in PayloadSet : Count(trace, <<"create", k>>) <= 1)
    /\ [][\A k \in PayloadSet :
            (spc = k /\ spc' # k /\ (spc' = "done" => status' = "OK"))
            => (Rewrote(k)' <=>
                  DataOf(request, k) # agentFile[PathOf(request, k)])]_vars

\* The status StoreCertificate returns when WritePemToFile of payload k
\* returns ErrInvalidPEMBlock
InvalidData(k) ==
    CASE k = "public_key"  -> "Invalid public_key_data"
      [] k = "private_key" -> "Invalid private_key_data"
      [] k = "ca"          -> "Invalid ca_data"

\* C18, as stated: WritePemToFile called with bytes that hold no PEM block
\* returns ErrInvalidPEMBlock, whatever the file holds, and leaves the file
\* as it was.
C18_NotPEMIsAlwaysRejected ==
    [][\A k \in PayloadSet :
          (spc = k /\ spc' # k /\ pemDecode(DataOf(request, k)) = "")
          => /\ spc' = "done"
             /\ status' = InvalidData(k)
             /\ UNCHANGED agentFile]_vars

MissingMessages ==
    {"Missing public_key_path", "Missing public_key_data",
     "Missing private_key_path", "Missing private_key_data", "Missing ca_data"}

\* C19: the step that validates a Request answers with the message of the
\* first check that fails, in the order public_key_path, public_key_data,
\* private_key_path, private_key_data, ca_data with a ca_path, and changes
\* no file; a call that fails validation has called WritePemToFile on
\* nothing; and WritePemToFile is called only for a Request that passes all
\* five checks.
C19_ValidationFirstAndOrdered ==
    /\ [](status \in MissingMessages =>
            (spc = "done" /\ trace = <<>>))
    /\ [](spc \notin {"idle", "validate", "done"} =>
            /\ request.PublicKeyPath # "" /\ request.PublicKeyData.kind # "empty"
            /\ request.PrivateKeyPath # "" /\ request.PrivateKeyData.kind # "empty"
            /\ request.CaPath # "" => request.CaData.kind # "empty")
    /\ [][(spc = "validate" /\ spc' # "validate") =>
            LET r == request
                noPubPath  == r.PublicKeyPath = ""
                noPubData  == r.PublicKeyData.kind = "empty"
                noPrivPath == r.PrivateKeyPath = ""
                noPrivData == r.PrivateKeyData.kind = "empty"
                noCaData   == r.CaPath # "" /\ r.CaData.kind = "empty"
            IN  /\ UNCHANGED <<agentFile, trace>>
                /\ noPubPath => status' = "Missing public_key_path"
                /\ (~noPubPath /\ noPubData)
                      => status' = "Missing public_key_data"
                /\ (~noPubPath /\ ~noPubData /\ noPrivPath)
                      => status' = "Missing private_key_path"
                /\ (~noPubPath /\ ~noPubData /\ ~noPrivPath /\ noPrivData)
                      => status' = "Missing private_key_data"
                /\ (~noPubPath /\ ~noPubData /\ ~noPrivPath /\ ~noPrivData
                       /\ noCaData)
                      => status' = "Missing ca_data"
                /\ (noPubPath \/ noPubData \/ noPrivPath \/ noPrivData
                       \/ noCaData) <=> spc' = "done"]_vars

\* C19 witness: a Request with several fields missing, the private key data
\* among them, has been answered with the first of them, the public key
\* data.
C19_Witness ==
    /\ spc = "done"
    /\ status = "Missing public_key_data"
    /\ request.PublicKeyPath # ""
    /\ request.PrivateKeyPath = ""
    /\ request.PrivateKeyData.kind = "empty"
    /\ request.CaPath # "" /\ request.CaData.kind = "empty"

\* The payload of the last call of WritePemToFile ("" before the first)
LastCalled ==
    LET calls == {i \in 1..Len(trace) : trace[i][1] = "call"}
    IN  IF calls = {} THEN ""
        ELSE trace[CHOOSE i \in calls : \A j \in calls : j <= i][2]

\* The write of payload k is over and did not fail.
Written(k) ==
    /\ Called(k)
    /\ spc \notin {k, Encoding(k)}
    /\ LastCalled = k => status = "OK"

\* C20: WritePemToFile is called at most once per payload, on the public
\* key, then the private key, then the CA, each only after the write before
\* it succeeded, and on the CA only with a ca_path; a file is created only
\* inside the call for its payload; the call answers OK only after all its
\* writes; and the write that fails ends the call, with "Invalid
\* <payload>_data" when the payload holds no PEM block and the Internal
\* error otherwise.
C20_WritesInOrderFirstFailureEnds ==
    /\ [](\A k \in PayloadSet :
            /\ Count(trace, <<"call", k>>) <= 1
            /\ Rewrote(k) =>
                  (Called(k) /\ Pos(trace, <<"create", k>>)
                                 = Pos(trace, <<"call", k>>) + 1))
    /\ [](Called("private_key") =>
            (Written("public_key")
             /\ Pos(trace, <<"call", "public_key">>)
                  < Pos(trace, <<"call", "private_key">>)))
    /\ [](Called("ca") =>
            (request.CaPath # "" /\ Written("private_key")
             /\ Pos(trace, <<"call", "private_key">>)
                  < Pos(trace, <<"call", "ca">>)))
    /\ [](status = "OK" =>
            (Written("public_key") /\ Written("private_key")
             /\ (request.CaPath # "" => Written("ca"))))
    /\ [](status \notin ({"", "OK"} \cup MissingMessages) =>
            (spc = "done" /\ LastCalled # ""
             /\ status = IF pemDecode(DataOf(request, LastCalled)) = ""
                         THEN InvalidData(LastCalled) ELSE ErrInternal))
    /\ [][\A k \in PayloadSet :
            (spc \in {k, Encoding(k)} /\ spc' = "done" /\ status' # "OK")
            => (LastCalled' = k /\ UNCHANGED request)]_vars

\* C20 witness: the write of the private key failed on a file that could
\* not be created, after the public key was written; the call answered with
\* the Internal error and left the CA, which has a path, unwritten.
C20_Witness ==
    /\ spc = "done"
    /\ status = ErrInternal
    /\ Rewrote("public_key")
    /\ LastCalled = "private_key"
    /\ ~Rewrote("private_key")
    /\ request.CaPath # ""
    /\ ~Called("ca")

\* The call ended with an error of the write of payload k.
FailedAt(k) == spc = "done" /\ status # "OK" /\ LastCalled = k

\* The destination of payload k holds what the write of k left there: the
\* encoding of the payload's block, or the payload it already equalled.
Stored(k) ==
    LET f == agentFile[PathOf(request, k)] IN
    IF Rewrote(k) THEN f = pemEncode(pemDecode(DataOf(request, k)))
    ELSE contentsAreEquals(DataOf(request, k), f)

\* C26: StoreCertificate rolls nothing back: when the write of the private
\* key fails, the public key file still holds what the call wrote there, and
\* when the write of the CA fails, so do the public and the private key file.
C26_EarlierWritesStay ==
    /\ FailedAt("private_key") => Stored("public_key")
    /\ FailedAt("ca") => Stored("public_key") /\ Stored("private_key")

\* C26 witness: the call answered with an error after it wrote a new
\* certificate, and no private key file exists next to it.
C26_Witness ==
    /\ FailedAt("private_key")
    /\ status = ErrInternal
    /\ Rewrote("public_key")
    /\ agentFile["tls.crt"] = Bytes("pem", "cert2", FALSE)
    /\ agentFile["tls.key"] = NoFile

\* The certificate of a.yaml is missing, does not load, or expires within
\* the renewal window.
NeedsRenewal ==
    \/ LoadCertFromFile(cert["outA"]) # ""
    \/ Expired(cert["outA"].notAfter, now, RequestFile("a.yaml").renewBefore)

\* A certificate that loads and outlives the renewal window is on disk.
Renewed ==
    /\ LoadCertFromFile(cert["outA"]) = ""
    /\ cert["outA"].notAfter >= now + RequestFile("a.yaml").renewBefore

\* A step on the way to the certificate of a.yaml has failed: the listing of
\* the directory, the load of the request or of its issuer, the creation of
\* the output directory, the generation or a write.
RenewalFails ==
    \/ listedErr # {}
    \/ /\ cur["tick"] = "a.yaml"
       /\ \/ Has(log["tick"], "ErrLoadRequest")
          \/ Has(log["tick"], "ErrIssuer")
          \/ Has(log["tick"], "Failure")
          \/ hpc["tick"] = "ret" /\ req["tick"].ok /\ ~dirExists["outA"]

GeneratedPair(o) ==
    /\ Parses(cert[o])
    /\ cert[o].id # 0
    /\ key[o].kind = "pem"
    /\ key[o].id = cert[o].id

\* The scan is inside a call for a.yaml that has not reached the generation.
BeforeGeneration ==
    /\ cur["tick"] = "a.yaml"
    /\ hpc["tick"] \in {"begin", "issuer", "stat", "mkdir", "loadcert"}

\* C28: once a call has generated key and certificate, a further call for
\* the same request, as long as the clock is before NotAfter - RenewBefore,
\* goes to its return without entering the generation and changes no file.
C28_FurtherCallIsNoOp ==
    [][(/\ BeforeGeneration
        /\ GeneratedPair("outA")
        /\ now < cert["outA"].notAfter - RequestFile("a.yaml").renewBefore)
       => /\ fsVars' = fsVars
          /\ hpc'["tick"] \in {"begin", "issuer", "stat", "loadcert", "ret"}
          /\ hpc["tick"] = "loadcert" /\ hpc'["tick"] # "loadcert"
                => hpc'["tick"] = "ret" /\ log' = log]_vars

\* C28 witness: a call for a.yaml found the pair that an earlier call of
\* this run generated, inside its validity, and returns without a log line
\* of renewal or generation.
C28_Witness ==
    /\ cur["tick"] = "a.yaml"
    /\ hpc["tick"] = "ret"
    /\ log["tick"] = <<"Handle">>
    /\ newKey["tick"] = 0
    /\ GeneratedPair("outA")
    /\ now < cert["outA"].notAfter - RequestFile("a.yaml").renewBefore

\* The scan evaluates the certificate of a request whose Duration does not
\* exceed its RenewBefore.
EvaluatesEager ==
    /\ Evaluates("tick")
    /\ req["tick"].ok
    /\ req["tick"].duration <= req["tick"].renewBefore

\* The certificate p evaluates loads, and its NotAfter is one that a
\* generation from p's request, now or earlier, gives: at most now + Duration.
FromThisRequest(p) ==
    /\ Parses(cert[Out(p)])
    /\ cert[Out(p)].notAfter <= now + req[p].duration

\* C29 (as stated): for a request whose Duration does not exceed its
\* RenewBefore, no call ever finds the no-op state: every evaluation of the
\* certificate on disk ends in a regeneration.
C29_NeverNoOp ==
    [][EvaluatesEager => hpc'["tick"] = "genkey"]_vars

\* C29 (amended): for such a request, the evaluation of a certificate that
\* does not load, or that a generation from this request produced, ends in a
\* regeneration, except when Duration equals RenewBefore and the clock still
\* reads what it read at the generation; then, and for a certificate from
\* another source whose NotAfter is at or after now + RenewBefore, the call
\* is a no-op.
C29_NoOpOnlyAtSameClockReading ==
    [][EvaluatesEager =>
          LET c == cert[Out("tick")]
              d == req["tick"].duration
              rb == req["tick"].renewBefore
          IN  /\ ~Parses(c) => hpc'["tick"] = "genkey"
              /\ FromThisRequest("tick") /\ (d < rb \/ c.notAfter < now + d)
                    => hpc'["tick"] = "genkey"
              /\ Parses(c) /\ c.notAfter >= now + rb
                    => hpc'["tick"] = "ret" /\ fsVars' = fsVars]_vars

\* C29 witness: a call for h.yaml (Duration 1, RenewBefore 2) is about to
\* generate again although the certificate on disk is the one the call
\* before it generated, at this very clock reading.
C29_Witness ==
    /\ cur["tick"] = "h.yaml"
    /\ hpc["tick"] = "genkey"
    /\ Has(log["tick"], "Expired")
    /\ GeneratedPair("outE")
    /\ cert["outE"].notAfter = now + 1

\* A pass of LoadCertificateRequests is running.
PassRunning == tpc \in {"readdir", "files"}

\* The invocations of the handler that are in progress
InProgress == {p \in Procs : hpc[p] # "idle"}

\* C30: the scan loop takes a tick, and so starts a pass, only when no pass
\* is running and its last invocation of the handler has returned; a tick
\* that arrives during a pass waits in the channel; each loop calls the
\* handler only after its previous invocation has returned, so that at most
\* two invocations are in progress, one of the scan and one of the listener.
C30_PassesNeverOverlap ==
    /\ [][tickerC' < tickerC => ~PassRunning /\ hpc["tick"] = "idle"]_vars
    /\ [][\A p \in Procs :
             hpc'[p] = "begin" /\ hpc[p] # "begin" => hpc[p] = "idle"]_vars
    /\ [](hpc["tick"] # "idle" => tpc = "files")
    /\ [](hpc["watch"] # "idle" => wpc = "handling")
    /\ [](Cardinality(InProgress) <= 2)

\* C30 witness: a tick waits in the channel while a pass is still running,
\* with one invocation of the scan and one of the listener in progress.
C30_Witness ==
    /\ tickerC = 1
    /\ PassRunning
    /\ handled # {}
    /\ InProgress = {"tick", "watch"}

\* ------------------------------------------------------------------------
\* Properties of pki.go
\* ------------------------------------------------------------------------

\* GeneratePrivateKey has returned.
KeyReturned == gpc \in {"gencert", "done"}

\* The algorithm the request selects, an empty name standing for RSA
Selected(name) ==
    ToLower(IF genReq.Algorithm = "" THEN "rsa" ELSE genReq.Algorithm) = name

\* The call failed for a reason that is not in its parameters: rand.Reader
\* or the disk.
EnvFailure ==
    genRet.err \in {<<"ErrGenerateKey", "rand">>,
                    <<"ErrGenerateKey", "ErrCreateFile">>,
                    <<"ErrGenerateKey", "ErrEncode">>}

\* The call returned a key and wrote a PEM block of the given type, unless
\* the environment failed.
KeySucceeds(type) ==
    \/ EnvFailure
    \/ /\ genRet.err = Nil
       /\ genRet.key # ""
       /\ outKey = File("pem", type, 1, 0)

\* The call returned an error that carries e, and no key.
KeyFailsWith(e) == Has(genRet.err, e) /\ genRet.key = ""

\* C21 (as stated): the outcome of GeneratePrivateKey follows the table read
\* literally: RSA succeeds exactly for the sizes from 2048 to 8192 and fails
\* as too weak below and too big above, ECDSA succeeds exactly for 256, 384
\* and 521, Ed25519 always succeeds, and an empty algorithm is RSA.
C21_OutcomeAsTabulated ==
    KeyReturned =>
        /\ Selected("rsa") =>
              /\ genReq.Size \in 2048..8192 => KeySucceeds("RSA PRIVATE KEY")
              /\ genReq.Size < 2048 => KeyFailsWith("ErrRSAKeySizeTooWeak")
              /\ genReq.Size > 8192 => KeyFailsWith("ErrRSAKeySizeTooBig")
        /\ Selected("ecdsa") =>
              /\ genReq.Size \in {256, 384, 521} => KeySucceeds("EC PRIVATE KEY")
              /\ genReq.Size \notin {256, 384, 521} =>
                    KeyFailsWith("ErrUnsupportedECDSAKeySize")
        /\ Selected("ed25519") => KeySucceeds("PRIVATE KEY")

\* C21 (amended): the same table, in which the size 0 of a request that gives
\* no size stands for 2048 with RSA and for 256 with ECDSA, so that it
\* succeeds; every other size outside the valid ones fails, the ECDSA error
\* naming the size.
C21_OutcomeWithDefaultSizes ==
    KeyReturned =>
        /\ Selected("rsa") =>
              /\ genReq.Size \in {0} \cup 2048..8192 =>
                    KeySucceeds("RSA PRIVATE KEY")
              /\ genReq.Size < 2048 /\ genReq.Size # 0 =>
                    KeyFailsWith("ErrRSAKeySizeTooWeak")
              /\ genReq.Size > 8192 => KeyFailsWith("ErrRSAKeySizeTooBig")
        /\ Selected("ecdsa") =>
              /\ genReq.Size \in {0, 256, 384, 521} =>
                    KeySucceeds("EC PRIVATE KEY")
              /\ genReq.Size \notin {0, 256, 384, 521} =>
                    /\ KeyFailsWith("ErrUnsupportedECDSAKeySize")
                    /\ Has(genRet.err, ToString(genReq.Size))
        /\ Selected("ed25519") => KeySucceeds("PRIVATE KEY")

\* C21 witness: a request that names ECDSA in capitals and gives no size got
\* a key on the default curve, written as an EC PRIVATE KEY.
C21_Witness ==
    /\ genReq.Algorithm = "ECDSA"
    /\ genReq.Size = 0
    /\ KeyReturned
    /\ genRet.err = Nil
    /\ outKey = File("pem", "EC PRIVATE KEY", 1, 0)

\* The call failed before WritePemToFile was called.
FailedBeforeWrite ==
    /\ gpc = "done"
    /\ genRet.err # Nil
    /\ genRet.err \notin {<<"ErrGenerateKey", "ErrCreateFile">>,
                          <<"ErrGenerateKey", "ErrEncode">>}

\* C22: every error GeneratePrivateKey returns is wrapped into ErrGenerateKey,
\* and a call that fails before the write leaves the key file as it was,
\* absent or with the key it held.
C22_EveryErrorIsErrGenerateKey ==
    /\ KeyReturned /\ genRet.err # Nil => genRet.err[1] = "ErrGenerateKey"
    /\ FailedBeforeWrite =>
          outKey \in {Absent, File("pem", "RSA PRIVATE KEY", 0, 0)}

\* GenerateCertificate has signed a certificate.
CertificateGenerated == gpc = "done" /\ keyUsage # {}

\* C23: the key usage of every generated certificate is digital signature,
\* plus key encipherment exactly when the key written is an RSA key, plus
\* cert sign exactly when the request is a CA, and no other bit, whatever
\* bits the keyUsages of the request name.
C23_KeyUsageBitsAreFixed ==
    CertificateGenerated =>
        /\ "DigitalSignature" \in keyUsage
        /\ "KeyEncipherment" \in keyUsage <=> outKey.type = "RSA PRIVATE KEY"
        /\ "CertSign" \in keyUsage <=> genReq.IsCA
        /\ keyUsage \subseteq {"DigitalSignature", "KeyEncipherment", "CertSign"}

\* C23 witness: a request that is no CA, asks for key encipherment and CRL
\* sign and has an ECDSA key got a certificate with digital signature alone.
C23_Witness ==
    /\ CertificateGenerated
    /\ genReq.KeyUsage = {"KeyEncipherment", "CRLSign"}
    /\ ~genReq.IsCA
    /\ outKey.type = "EC PRIVATE KEY"
    /\ keyUsage = {"DigitalSignature"}

\* ------------------------------------------------------------------------
\* Properties of the extended key usages
\* ------------------------------------------------------------------------

\* The constant of the x509 package that stands for a name of the enumeration
ExtKeyUsageCode(name) ==
    CASE name = "any"              -> "ExtKeyUsageAny"
      [] name = "server auth"      -> "ExtKeyUsageServerAuth"
      [] name = "client auth"      -> "ExtKeyUsageClientAuth"
      [] name = "code signing"     -> "ExtKeyUsageCodeSigning"
      [] name = "email protection" -> "ExtKeyUsageEmailProtection"
      [] name = "ipsec end system" -> "ExtKeyUsageIPSECEndSystem"
      [] name = "ipsec tunnel"     -> "ExtKeyUsageIPSECTunnel"
      [] name = "ipsec user"       -> "ExtKeyUsageIPSECUser"
      [] name = "time stamping"    -> "ExtKeyUsageTimeStamping"
      [] name = "ocsp signing"     -> "ExtKeyUsageOCSPSigning"
      [] name = "microsoft server gated crypto" ->
            "ExtKeyUsageMicrosoftServerGatedCrypto"
      [] name = "netscape server gated crypto" ->
            "ExtKeyUsageNetscapeServerGatedCrypto"
      [] name = "microsoft commercial code signing" ->
            "ExtKeyUsageMicrosoftCommercialCodeSigning"
      [] name = "microsoft kernel code signing" ->
            "ExtKeyUsageMicrosoftKernelCodeSigning"

\* The token is a name of the enumeration, in any letter case.
Enumerated(token) == ToLower(token) \in ExtKeyUsageNames

\* The loop over extKeyUsages has run.
EkuLoaded == ekuRet # NoEkuResult

\* C24: every token that is a name of the enumeration in any letter case is
\* mapped to its constant, and the first token that is not makes the load
\* fail with an error that names it.
C24_EnumeratedNamesAcceptedOthersNamed ==
    EkuLoaded =>
        LET bad == {i \in 1..Len(extKeyUsages) : ~Enumerated(extKeyUsages[i])}
        IN  IF bad = {}
            THEN /\ ekuRet.err = Nil
                 /\ ekuRet.ExtKeyUsage =
                        [i \in 1..Len(extKeyUsages) |->
                            ExtKeyUsageCode(ToLower(extKeyUsages[i]))]
            ELSE \E i \in bad :
                    /\ \A k \in bad : i <= k
                    /\ ekuRet.err = <<"ErrInvalidExtKeyUsages", extKeyUsages[i]>>

\* ------------------------------------------------------------------------
\* Properties of the stack of stop functions
\* ------------------------------------------------------------------------

Reverse(seq) == [i \in 1..Len(seq) |-> seq[Len(seq) + 1 - i]]

\* C25: callGracefulStops calls the pushed functions last pushed first and
\* each once: at every moment the functions called, followed by those still
\* on the stack last pushed first, are the pushed functions in reverse;
\* Shutdown returns, and then the stack is empty and every pushed function
\* has been called.
C25_StopsCalledOnceInReverse ==
    /\ [](dpc \in {"shutdown", "stopped"} =>
             stopCalls \o Reverse(gracefulStops) = Reverse(pushed))
    /\ [](dpc = "stopped" =>
             gracefulStops = <<>> /\ stopCalls = Reverse(pushed))
    /\ (dpc = "shutdown") ~> (dpc = "stopped")

\* C25 witness: Shutdown has returned after calling three functions, the
\* one pushed last first and the one pushed first last.
C25_Witness ==
    /\ dpc = "stopped"
    /\ pushed = <<"manager.Start", "watcher.Start", "agent.Start">>
    /\ stopCalls = <<"agent.Start", "watcher.Start", "manager.Start">>
====
